---- MODULE Spec2Model ----
(***************************************************************************)
(* LLM-as-a-judge comparison service (cadugevaerd/llm-as-a-judge-api).     *)
(*                                                                         *)
(* The state machines of this module:                                      *)
(*   Spec        the graph workflow of workflow/workflow.py                *)
(*               (main -> llm_1 / llm_2 -> judge, under one deadline);     *)
(*   SpecParse   parse_judge_response of workflow/workflow_backup.py,      *)
(*               applied to raw judge outputs drawn from a bounded set;    *)
(*   SpecCompare the judge-only workflow of workflow/workflow_backup.py    *)
(*               (main -> node_judge -> parse_judge_response);             *)
(*   SpecBatch   batch_judge_processing and the batch endpoint             *)
(*               compare_models_batch of api/routers/compare.py;           *)
(*   SpecStats   the statistics compare_models_batch computes from a list  *)
(*               of batch results drawn from a bounded set;                *)
(*   SpecEndpoint  the single-comparison endpoint compare_models behind    *)
(*               its request schema, calling the main it imports;          *)
(*   SpecBatchRequest  the batch endpoint behind its request schema;       *)
(*   SpecRegistry  the read methods of config/models_loader.py while the   *)
(*               backing file changes between calls;                       *)
(*   SpecFactory the operations of agents/llm_factory.py on top of that    *)
(*               registry, with the creator functions of agents/llms.py.   *)
(*                                                                         *)
(* Python values are tagged records [t |-> type, v |-> value]. A Python    *)
(* str is a sequence of tokens; a token stands for a run of characters     *)
(* and Inside(token) lists the search keys that occur in it at character   *)
(* level, so substring tests, find, count, lower and startswith are        *)
(* computed on the sequence the way the code computes them on the string.  *)
(***************************************************************************)
EXTENDS Integers, Sequences, FiniteSets, TLC

VARIABLES
    main_pc,        \* workflow.main: "idle" | "build" | "graph" | "done" | "raised"
    request,        \* the arguments of workflow.main
    state,          \* BestResponseState channels written by the nodes
    node_pc,        \* llm_1 / llm_2 / judge: "idle" | "awaiting" | "done"
    result,         \* what workflow.main returned, or the exception it raised
    calls,          \* model clients created and chains invoked in this run
    cached_models,  \* LLMFactory._cached_models (its keys, in insertion order)
    config_loaded,  \* LLMFactory._config_loaded
    active_models,  \* models_loader.get_active_models() as served now, each
                    \* id with whether get_model_config returns its descriptor
    deadline,       \* asyncio.timeout of workflow.main: "created" | "armed" | "due" (its
                    \* time has passed, the task has not been cancelled yet) | "expired"
                    \* (the task was cancelled, TimeoutError raised) | "exited" (left in
                    \* time) | "overrun" (left after its time had passed, uncancelled)
    parse_in,       \* SpecParse: last argument of parse_judge_response
    parse_out,      \* SpecParse: its return value
    cmp_pc,         \* workflow_backup.main position
    cmp_in,         \* workflow_backup.main arguments
    cmp_judge,      \* what the judge chain did in this comparison
    cmp_out,        \* workflow_backup.main return value
    batch_pc,       \* batch endpoint position
    batch_in,       \* request.comparisons
    batch_raw,      \* what chain.abatch returned
    batch_results,  \* final_results of batch_judge_processing
    batch_out,      \* what the endpoint answered
    stats_in,       \* SpecStats: the batch_results handed to the statistics
    stats_out,      \* SpecStats: the BatchComparisonResponse counters
    registry,       \* models_loader: [file, cache, fresh]
    reg_out,        \* SpecRegistry: what the last read method answered
    fac_env,        \* SpecFactory: the credentials present in the environment
    fac_in,         \* SpecFactory: the last factory operation and its argument
    fac_out,        \* SpecFactory: what it returned, or the exception it raised
    http_in,        \* the JSON body of the request an endpoint received
    http_out        \* what the single-comparison endpoint answered

vars_wf == <<main_pc, request, state, node_pc, result, calls, deadline>>
vars_factory == <<cached_models, config_loaded, active_models>>
vars_parse == <<parse_in, parse_out>>
vars_cmp == <<cmp_pc, cmp_in, cmp_judge, cmp_out>>
vars_batch == <<batch_pc, batch_in, batch_raw, batch_results, batch_out>>
vars_stats == <<stats_in, stats_out>>
vars_reg == <<registry, reg_out>>
vars_fac == <<fac_env, fac_in, fac_out>>
vars_http == <<http_in, http_out>>
vars == <<vars_wf, vars_factory, vars_parse, vars_cmp, vars_batch, vars_stats,
          vars_reg, vars_fac, vars_http>>

(***************************************************************************)
(* Python values                                                           *)
(***************************************************************************)
PyNone == [t |-> "none"]
PyStr(s) == [t |-> "str", v |-> s]
PyInt(n) == [t |-> "int", v |-> n]
PyBool(b) == [t |-> "bool", v |-> b]
PyDict(f) == [t |-> "dict", v |-> f]
PyExc(cls, msg) == [t |-> "exc", cls |-> cls, v |-> msg]

\* bool(x) as Python evaluates it in `x and ...` / `not x`.
Truthy(x) ==
    CASE x.t = "none" -> FALSE
      [] x.t = "str"  -> Len(x.v) > 0
      [] x.t = "int"  -> x.v # 0
      [] x.t = "bool" -> x.v
      [] x.t = "dict" -> DOMAIN x.v # {}
      [] OTHER        -> TRUE

\* x == n for a Python int literal n: True == 1 and False == 0 hold in Python.
PyEqInt(x, n) ==
    CASE x.t = "int"  -> x.v = n
      [] x.t = "bool" -> (IF x.v THEN 1 ELSE 0) = n
      [] OTHER        -> FALSE

(***************************************************************************)
(* Strings as token sequences                                              *)
(***************************************************************************)
\* The search keys found inside one token at character level.
Inside(w) ==
    CASE w = "MODELO_ERROR:"          -> {w, "ERROR"}
      [] w = "LLM_A_ERROR:"           -> {w, "ERROR"}
      [] w = "LLM_B_ERROR:"           -> {w, "ERROR"}
      [] w = "WORKFLOW_TIMEOUT_ERROR" -> {w, "ERROR", "TIMEOUT"}
      [] w = "entities"               -> {w, "tie"}
      [] OTHER                        -> {w}

\* key in text
Contains(text, key) == \E i \in 1..Len(text) : key \in Inside(text[i])

\* str.lower() of one token
LowerWord(w) ==
    CASE w = "Assistant A" -> "assistant a"
      [] w = "Assistant B" -> "assistant b"
      [] w = "Winner:"     -> "winner:"
      [] w = "Empate"      -> "empate"
      [] w = "Tie"         -> "tie"
      [] OTHER             -> w

\* text.lower()
Lower(text) == [i \in 1..Len(text) |-> LowerWord(text[i])]

\* text.find(key): 0 stands for Python's -1, positions are 1-based.
Find(text, key) ==
    IF Contains(text, key)
    THEN CHOOSE i \in 1..Len(text) :
            /\ key \in Inside(text[i])
            /\ \A j \in 1..(i - 1) : key \notin Inside(text[j])
    ELSE 0

\* text[i:] for a 1-based position i; Python's text[-1:] is the last token.
From(text, i) ==
    IF i = 0
    THEN (IF Len(text) = 0 THEN <<>> ELSE SubSeq(text, Len(text), Len(text)))
    ELSE SubSeq(text, i, Len(text))

\* text.count(key)
Count(text, key) == Cardinality({i \in 1..Len(text) : key \in Inside(text[i])})

(***************************************************************************)
(* ModelsLoader (config/models_loader.py)                                  *)
(*                                                                         *)
(* A JSON object is a record: its keys are the record's DOMAIN.  The       *)
(* backing file is [t |-> "missing"], [t |-> "malformed"] (json.load       *)
(* raises JSONDecodeError) or [t |-> "json", v |-> the decoded object].    *)
(* The registry is the record [file, cache, fresh]: the backing file,      *)
(* _config_cache, and whether _last_modified is the file's current mtime.  *)
(***************************************************************************)
\* The fields of the dataclasses ModelConfig and ProviderConfig.
ModelConfigFields ==
    {"id", "display_name", "provider", "is_default", "status",
     "performance", "test_results", "capabilities"}
ProviderConfigFields == {"api_type", "requires_key", "base_url"}

IsExc(x) == "t" \in DOMAIN x /\ x.t = "exc"

\* for field in required_fields: if field not in d: the first field of the
\* list that d lacks.
FirstMissing(required_fields, d) ==
    required_fields[CHOOSE i \in 1..Len(required_fields) :
                        /\ required_fields[i] \notin DOMAIN d
                        /\ \A j \in 1..(i - 1) : required_fields[j] \in DOMAIN d]

\* _validate_model_structure: None, or the ModelsConfigError it raises.
ValidateModelStructure(model_id, model_data) ==
    IF ~({"id", "display_name", "provider", "is_default", "status"}
             \subseteq DOMAIN model_data)
    THEN PyExc("ModelsConfigError",
               <<"Campo obrigatório ausente no modelo", model_id,
                 FirstMissing(<<"id", "display_name", "provider", "is_default", "status">>,
                              model_data)>>)
    ELSE IF model_data.is_default \notin BOOLEAN
    THEN PyExc("ModelsConfigError", <<"Campo 'is_default' deve ser booleano", model_id>>)
    ELSE IF model_data.status \notin {"active", "inactive", "deprecated"}
    THEN PyExc("ModelsConfigError",
               <<"Status inválido no modelo", model_id, model_data.status>>)
    ELSE PyNone

\* _validate_provider_structure.
ValidateProviderStructure(provider_id, provider_data) ==
    IF ~({"api_type", "requires_key"} \subseteq DOMAIN provider_data)
    THEN PyExc("ModelsConfigError",
               <<"Campo obrigatório ausente no provedor", provider_id,
                 FirstMissing(<<"api_type", "requires_key">>, provider_data)>>)
    ELSE PyNone

\* A decoded JSON object keeps its members in the order of the file: the
\* record holds the members, key_order the order in which .items() yields
\* the keys of 'models' and of 'providers'.
Keys(config, member) == config.key_order[member]

\* for model_id, model_data in config['models'].items(): the first error
\* _validate_model_structure raises from position i on, or None.
RECURSIVE ValidateModels(_, _)
ValidateModels(config, i) ==
    IF i > Len(Keys(config, "models")) THEN PyNone
    ELSE IF ValidateModelStructure(Keys(config, "models")[i],
                                   config.models[Keys(config, "models")[i]]) # PyNone
    THEN ValidateModelStructure(Keys(config, "models")[i],
                                config.models[Keys(config, "models")[i]])
    ELSE ValidateModels(config, i + 1)

\* for provider_id, provider_data in config['providers'].items().
RECURSIVE ValidateProviders(_, _)
ValidateProviders(config, i) ==
    IF i > Len(Keys(config, "providers")) THEN PyNone
    ELSE IF ValidateProviderStructure(Keys(config, "providers")[i],
                                      config.providers[Keys(config, "providers")[i]]) # PyNone
    THEN ValidateProviderStructure(Keys(config, "providers")[i],
                                   config.providers[Keys(config, "providers")[i]])
    ELSE ValidateProviders(config, i + 1)

\* _validate_config_structure with every check it makes, in its order, and
\* without the one it does not make: the provider a model names is never
\* looked up in config['providers'].
ValidateConfigStructure(config) ==
    IF ~({"metadata", "default_model", "models", "providers"} \subseteq DOMAIN config)
    THEN PyExc("ModelsConfigError",
               <<"Campo obrigatório ausente:",
                 FirstMissing(<<"metadata", "default_model", "models", "providers">>,
                              config)>>)
    ELSE IF ~({"generated_at", "test_version", "total_models_tested"}
                  \subseteq DOMAIN config.metadata)
    THEN PyExc("ModelsConfigError",
               <<"Campo obrigatório em metadata:",
                 FirstMissing(<<"generated_at", "test_version", "total_models_tested">>,
                              config.metadata)>>)
    ELSE IF DOMAIN config.models = {}
    THEN PyExc("ModelsConfigError", <<"Campo 'models' deve ser um dicionário não vazio">>)
    ELSE IF config.default_model \notin DOMAIN config.models
    THEN PyExc("ModelsConfigError", <<"Modelo padrão", config.default_model, "não encontrado">>)
    ELSE IF ValidateModels(config, 1) # PyNone
    THEN ValidateModels(config, 1)
    ELSE IF DOMAIN config.providers = {}
    THEN PyExc("ModelsConfigError", <<"Campo 'providers' deve ser um dicionário não vazio">>)
    ELSE ValidateProviders(config, 1)

\* _load_config_from_file: the validated object, or the ModelsConfigError.
LoadConfigFromFile(file) ==
    IF file.t = "missing"
    THEN PyExc("ModelsConfigError", <<"Arquivo de configuração não encontrado">>)
    ELSE IF file.t = "malformed"
    THEN PyExc("ModelsConfigError", <<"Erro ao decodificar JSON">>)
    ELSE IF ValidateConfigStructure(file.v) # PyNone
    THEN PyExc("ModelsConfigError",
               <<"Erro ao carregar configuração">> \o ValidateConfigStructure(file.v).v)
    ELSE file.v

\* _generate_fallback_config: three active models, none with test_results.
\* average_time is in tenths of a second (3.0, 4.0 and 4.5 seconds).
FallbackModelData(id, display_name, provider, is_default, average_time, ranking) ==
    [id |-> id, display_name |-> display_name, provider |-> provider,
     is_default |-> is_default, status |-> "active",
     performance |-> [average_time |-> average_time, ranking |-> ranking,
                      consistency |-> TRUE],
     capabilities |-> [max_tokens |-> 1024, temperature |-> 0, timeout |-> 30]]

ProviderData(api_type, requires_key, base_url) ==
    [api_type |-> api_type, requires_key |-> requires_key, base_url |-> base_url]

\* The metadata of a models_config.json: the three fields
\* _validate_config_structure requires.
Metadata ==
    [generated_at |-> "now", test_version |-> "fallback_v1.0",
     total_models_tested |-> 3]

\* The metadata _generate_fallback_config writes; generated_at is the time
\* of the call.
FallbackMetadata ==
    [generated_at |-> "now", test_version |-> "fallback_v1.0",
     total_models_tested |-> 3, finalists_count |-> 3,
     generation_criteria |-> [max_response_time |-> "5.0s",
                              consistency_required |-> FALSE,
                              majority_vote_required |-> FALSE]]

GenerateFallbackConfig ==
    [metadata |-> FallbackMetadata,
     default_model |-> "llama-4-maverick",
     models |->
        [m \in {"llama-4-maverick", "claude-4-sonnet", "google-gemini-2.5-pro"} |->
            IF m = "llama-4-maverick"
            THEN FallbackModelData(m, "Llama 4 Maverick", "openrouter", TRUE, 30, 1)
            ELSE IF m = "claude-4-sonnet"
            THEN FallbackModelData(m, "Claude 4 Sonnet", "anthropic", FALSE, 40, 2)
            ELSE FallbackModelData(m, "Gemini 2.5 Pro", "google", FALSE, 45, 3)],
     providers |->
        [p \in {"anthropic", "openrouter", "google"} |->
            IF p = "anthropic"
            THEN ProviderData("anthropic", "ANTHROPIC_API_KEY", PyNone)
            ELSE ProviderData("openrouter", "OPENROUTER_API_KEY",
                              PyStr(<<"https://openrouter.ai/api/v1">>))],
     key_order |->
        [models |-> <<"llama-4-maverick", "claude-4-sonnet", "google-gemini-2.5-pro">>,
         providers |-> <<"anthropic", "openrouter", "google">>]]

\* _should_reload.
ShouldReload(r) ==
    IF r.cache = PyNone THEN TRUE
    ELSE IF r.file.t = "missing" THEN FALSE
    ELSE ~r.fresh

\* get_config as it would be if the decoded file were cached before it is
\* validated.
GetConfigUnvalidated(r, force_reload) ==
    IF force_reload \/ ShouldReload(r)
    THEN IF r.file.t = "json"
         THEN [r EXCEPT !.cache = r.file.v, !.fresh = TRUE]
         ELSE IF r.cache = PyNone
         THEN [r EXCEPT !.cache = GenerateFallbackConfig]
         ELSE r
    ELSE r

\* get_config(force_reload): the registry it leaves behind; what it returns
\* is the cache of that registry.
GetConfig(r, force_reload) ==
    IF force_reload \/ ShouldReload(r)
    THEN LET loaded == LoadConfigFromFile(r.file)
         IN IF ~IsExc(loaded)
            THEN [r EXCEPT !.cache = loaded, !.fresh = TRUE]
            ELSE IF r.cache = PyNone
            THEN [r EXCEPT !.cache = GenerateFallbackConfig]
            ELSE r
    ELSE r

\* The element of a singleton.  {e(x) : x \in {v}} computes v once, however
\* often e uses it.
The(S) == CHOOSE x \in S : TRUE

\* The elements of a list.
Range(list) == {list[i] : i \in 1..Len(list)}

\* ModelsLoader.get_available_models(status_filter): the ids in the order
\* of the configuration.
LoaderGetAvailableModels(r, status_filter) ==
    LET config == GetConfig(r, FALSE).cache
        listed(model_id) ==
            \/ status_filter.t = "none"
            \/ <<config.models[model_id].status>> = status_filter.v
    IN SelectSeq(Keys(config, "models"), listed)

\* get_active_models.
GetActiveModels(r) == LoaderGetAvailableModels(r, PyStr(<<"active">>))

\* get_default_model.
GetDefaultModel(r) == GetConfig(r, FALSE).cache.default_model

\* ModelConfig(**model_data) and ProviderConfig(**provider_data): a dataclass
\* constructor raises TypeError on a missing or an unexpected keyword.
Dataclass(fields, data) ==
    IF DOMAIN data = fields THEN PyDict(data)
    ELSE PyExc("TypeError", <<"__init__() missing or unexpected argument">>)

\* get_model_config: None, the ModelConfig, or the TypeError it raises.
GetModelConfig(r, model_id) ==
    LET config == GetConfig(r, FALSE).cache
    IN IF model_id \notin DOMAIN config.models THEN PyNone
       ELSE Dataclass(ModelConfigFields, config.models[model_id])

\* get_provider_config.
GetProviderConfig(r, provider_id) ==
    LET config == GetConfig(r, FALSE).cache
    IN IF provider_id \notin DOMAIN config.providers THEN PyNone
       ELSE Dataclass(ProviderConfigFields, config.providers[provider_id])

\* get_models_by_provider: the ids of the provider's models, in the order
\* of the configuration.
GetModelsByProvider(r, provider_id) ==
    LET config == GetConfig(r, FALSE).cache
        listed(model_id) == config.models[model_id].provider = provider_id
    IN SelectSeq(Keys(config, "models"), listed)

\* performance.get('average_time', float('inf')) and the order of floats.
Infinity == [inf |-> TRUE, v |-> 0]
Finite(x) == [inf |-> FALSE, v |-> x]
PerformanceGet(performance, k) ==
    IF k \in DOMAIN performance THEN Finite(performance[k]) ELSE Infinity
LessThan(a, b) == ~a.inf /\ (b.inf \/ a.v < b.v)

\* list.sort(key=lambda x: x['average_time']): stable, ascending.
RECURSIVE SortByAverageTime(_)
SortByAverageTime(list) ==
    IF list = <<>> THEN <<>>
    ELSE The({LET x == list[Len(list)]
                  k == Cardinality({i \in 1..Len(sorted) :
                                       ~LessThan(x.average_time, sorted[i].average_time)})
              IN SubSeq(sorted, 1, k) \o <<x>> \o SubSeq(sorted, k + 1, Len(sorted)) :
              sorted \in {SortByAverageTime(SubSeq(list, 1, Len(list) - 1))}})

\* get_fastest_models(limit): the active models that carry 'performance',
\* by average time, at most `limit` of them.
GetFastestModels(r, limit) ==
    The({LET measured(model_id) ==
                /\ config.models[model_id].status = "active"
                /\ "performance" \in DOMAIN config.models[model_id]
         IN The({LET models_with_performance ==
                        [i \in 1..Len(ids) |->
                            [id |-> ids[i],
                             display_name |-> config.models[ids[i]].display_name,
                             average_time |->
                                 PerformanceGet(config.models[ids[i]].performance,
                                                "average_time"),
                             ranking |->
                                 PerformanceGet(config.models[ids[i]].performance,
                                                "ranking")]]
                 IN The({SubSeq(sorted, 1,
                                IF Len(sorted) < limit THEN Len(sorted) ELSE limit) :
                         sorted \in {SortByAverageTime(models_with_performance)}}) :
                 ids \in {SelectSeq(Keys(config, "models"), measured)}}) :
         config \in {GetConfig(r, FALSE).cache}})

\* is_model_available: the bool, or the TypeError of get_model_config.
IsModelAvailable(r, model_id) ==
    LET model_config == GetModelConfig(r, model_id)
    IN IF IsExc(model_config) THEN model_config
       ELSE PyBool(model_config # PyNone /\ model_config.v.status = "active")

\* get_config_metadata.
GetConfigMetadata(r) ==
    LET config == GetConfig(r, FALSE).cache
    IN IF "metadata" \in DOMAIN config THEN config.metadata ELSE <<>>

\* ModelsLoader.health_check: the report, without the path and the
\* modification time of the file, which the registry of this model does
\* not hold.  An exception of is_model_available gives the error report.
HealthCheck(r) ==
    The({The({LET config_exists == r.file.t # "missing"
              IN IF IsExc(default_valid)
                 THEN [status |-> "error", error |-> default_valid.v,
                       config_file_exists |-> FALSE, cache_active |-> FALSE]
                 ELSE [status |-> IF config_exists /\ active # <<>> /\ default_valid.v
                                  THEN "healthy" ELSE "degraded",
                       config_file_exists |-> config_exists,
                       total_models |-> Cardinality(DOMAIN config.models),
                       active_models |-> Len(active),
                       default_model |-> config.default_model,
                       default_model_valid |-> default_valid.v,
                       providers_count |-> Cardinality(DOMAIN config.providers),
                       cache_active |-> TRUE,
                       metadata |-> GetConfigMetadata(r)] :
              active \in {GetActiveModels(r)},
              default_valid \in {IsModelAvailable(r, config.default_model)}}) :
         config \in {GetConfig(r, FALSE).cache}})

\* ---- the files of the registry machine ----
\* The model ids and providers a models_config.json of this model declares:
\* one model of each direct-API family.
FileModelIds == {"claude-sonnet-4-0", "mistral-large-latest"}
ProviderOf(m) == IF m = "claude-sonnet-4-0" THEN "anthropic" ELSE "mistral"
KeyOf(p) == IF p = "anthropic" THEN "ANTHROPIC_API_KEY" ELSE "MISTRAL_API_KEY"

\* A model entry as the performance tests write it, with a status, and with
\* or without its test_results; the average time in tenths of a second.
ModelData(m, status, tested) ==
    LET partial ==
          [id |-> m, display_name |-> m, provider |-> ProviderOf(m),
           is_default |-> FALSE, status |-> status,
           performance |-> [average_time |-> IF m = "claude-sonnet-4-0" THEN 40 ELSE 30,
                            consistency |-> TRUE],
           capabilities |-> [max_tokens |-> 1024, temperature |-> 0, timeout |-> 30]]
    IN IF tested
       THEN [k \in ModelConfigFields |->
                IF k = "test_results" THEN [passed |-> TRUE] ELSE partial[k]]
       ELSE partial

\* The entries a file can hold for model m.
ModelEntries(m) ==
    IF m = "claude-sonnet-4-0"
    THEN {ModelData(m, "active", TRUE), ModelData(m, "active", FALSE)}
    ELSE {ModelData(m, "active", TRUE), ModelData(m, "inactive", TRUE)}

ModelDicts ==
    UNION {[ids -> UNION {ModelEntries(m) : m \in ids}] : ids \in SUBSET FileModelIds}

ProviderDicts ==
    {[p \in ps |-> ProviderData(p, KeyOf(p), PyNone)] : ps \in SUBSET {"anthropic", "mistral"}}

\* The orders in which a file can list the keys S.
Orders(S) ==
    {order \in [1..Cardinality(S) -> S] :
        \A i, j \in 1..Cardinality(S) : i # j => order[i] # order[j]}

\* Decoded files: every combination of the above in which each entry sits
\* under its own id, the models in every order, with the first model or,
\* for the complete file, the second as the default, plus one object
\* without its metadata.
JsonObjects ==
    UNION {{[metadata |-> Metadata, default_model |-> d, models |-> ms, providers |-> ps,
             key_order |-> [models |-> models_order, providers |-> providers_order]] :
               d \in IF /\ DOMAIN ps = {"anthropic", "mistral"}
                        /\ ms = [m \in FileModelIds |-> ModelData(m, "active", TRUE)]
                     THEN FileModelIds ELSE {"claude-sonnet-4-0"},
               models_order \in Orders(DOMAIN ms),
               providers_order \in {SelectSeq(<<"anthropic", "mistral">>,
                                              LAMBDA p : p \in DOMAIN ps)}} :
           ms \in {x \in ModelDicts : \A m \in DOMAIN x : x[m].id = m},
           ps \in ProviderDicts}
    \cup {[default_model |-> "claude-sonnet-4-0",
           models |-> [m \in {"claude-sonnet-4-0"} |-> ModelData(m, "active", TRUE)],
           providers |-> [p \in {"anthropic"} |-> ProviderData(p, KeyOf(p), PyNone)],
           key_order |-> [models |-> <<"claude-sonnet-4-0">>,
                          providers |-> <<"anthropic">>]]}

Files ==
    {[t |-> "missing"], [t |-> "malformed"]} \cup {[t |-> "json", v |-> o] : o \in JsonObjects}

Registry(file, cache, fresh) == [file |-> file, cache |-> cache, fresh |-> fresh]

\* No registry in use: no file, the fallback configuration cached.
IdleRegistry ==
    /\ registry = Registry([t |-> "missing"], GenerateFallbackConfig, FALSE)
    /\ reg_out = PyNone

\* No factory call made.
IdleCreate == fac_env = {} /\ fac_in = PyNone /\ fac_out = PyNone

\* No request received by an endpoint.
IdleHttp == http_in = PyNone /\ http_out = PyNone

(***************************************************************************)
(* LLMFactory (agents/llm_factory.py)                                      *)
(***************************************************************************)
\* The ids _load_fallback_models registers, in the order of its dict.
FallbackOrder == <<"llama-4-maverick", "claude-4-sonnet", "google-gemini-2.5-pro">>
FallbackModels == Range(FallbackOrder)

\* cls._cached_models[model_id] = creator: a new key goes to the end of the
\* dict, a key already there keeps its place.
Put(cached, model_id) ==
    IF model_id \in Range(cached) THEN cached ELSE Append(cached, model_id)

\* cls._cached_models.update(fallback_models).
RECURSIVE PutAll(_, _)
PutAll(cached, ids) ==
    IF ids = <<>> THEN cached ELSE PutAll(Put(cached, Head(ids)), Tail(ids))

\* An active model of the registry: its id, and whether the registry can
\* build its descriptor (ModelConfig needs every field, test_results too).
ActiveModel(id, described) == [id |-> id, described |-> described]

\* What get_active_models lists when the registry serves its built-in
\* fallback configuration, whose entries carry no test_results.
FallbackActiveModels ==
    <<ActiveModel("llama-4-maverick", FALSE), ActiveModel("claude-4-sonnet", FALSE),
      ActiveModel("google-gemini-2.5-pro", FALSE)>>

\* What get_active_models lists for a models_config.json whose active ids
\* come in the order `order`, those of `untested` without test_results.
FileActiveModels(order, untested) ==
    [i \in 1..Len(order) |-> ActiveModel(order[i], order[i] \notin untested)]

\* The loop of _load_models_from_config from position i on: each active
\* model is cached under its id; when get_model_config raises, the handler
\* adds the fallback ids to what was cached so far.
RECURSIVE LoadEachActiveModel(_, _)
LoadEachActiveModel(i, cached) ==
    IF i > Len(active_models) THEN cached
    ELSE IF ~active_models[i].described THEN PutAll(cached, FallbackOrder)
    ELSE LoadEachActiveModel(i + 1, Put(cached, active_models[i].id))

\* _load_models_from_config: with no active model the fallback ids are
\* added to the cache, otherwise the loop runs.
LoadModelsFromConfig(cached) ==
    IF active_models = <<>> THEN PutAll(cached, FallbackOrder)
    ELSE LoadEachActiveModel(1, cached)

\* _ensure_config_loaded, as the pair <<_cached_models, _config_loaded>>.
EnsureConfigLoaded(f) ==
    IF f[2] THEN f ELSE <<LoadModelsFromConfig(f[1]), TRUE>>

\* create_llm up to its final validation: the factory state it leaves behind.
\* An unknown name clears the cache and reloads it from the registry.
FactoryAfterLookup(f, model_name) ==
    LET f1 == EnsureConfigLoaded(f)
    IN IF model_name \notin Range(f1[1])
       THEN EnsureConfigLoaded(<<<<>>, FALSE>>)
       ELSE f1

\* What the creator function of a cached model can do: build the client, or
\* raise ValueError (credential or provider missing), or raise something else.
CreatorOutcomes == {"ok", "ValueError", "Exception"}

\* LLMFactory.create_llm(model_name) with the creator behaving as `env`:
\* "ok", or the exception raised.
CreateLLM(f, model_name, env) ==
    IF model_name \notin Range(FactoryAfterLookup(f, model_name)[1])
    THEN PyExc("ValueError", <<"Modelo", model_name, "não encontrado">>)
    ELSE IF env = "ok" THEN PyNone
    ELSE IF env = "ValueError" THEN PyExc("ValueError", <<"API key não encontrada">>)
    ELSE PyExc("Exception", <<"client init failed">>)

(***************************************************************************)
(* agents/agents.py                                                        *)
(***************************************************************************)
\* What langsmith_client.pull_prompt(PROMPT_LAAJ) can do: hand the prompt
\* over, or raise.
PromptOutcomes == {"ok", "raises"}

\* chain_laaj(llm) with the pull of the prompt behaving as `pull` (lines
\* 21-30): PyNone when the chain is built, otherwise the RuntimeError the
\* except clause raises.
chain_laaj(pull) ==
    IF pull = "ok" THEN PyNone
    ELSE PyExc("RuntimeError",
               <<"Falha ao carregar o prompt", "'langchain-ai/pairwise-evaluation-2'",
                 "no LangSmith.",
                 "Verifique as variáveis LANGSMITH_API_KEY/LANGCHAIN_API_KEY, permissões do projeto e se o prompt existe e está acessível.">>)

\* create_llm(model_name) followed by chain_laaj(judge_llm), the two calls
\* every judge makes before it awaits its chain: the exception one of them
\* raises, or PyNone when the chain is ready.
JudgeChain(f, model_name, env, pull) ==
    IF CreateLLM(f, model_name, env) # PyNone THEN CreateLLM(f, model_name, env)
    ELSE chain_laaj(pull)

(***************************************************************************)
(* workflow/workflow.py                                                    *)
(***************************************************************************)
WORKFLOW_TIMEOUT_SECONDS == 120

ModelNames ==
    {"llama-4-maverick", "claude-4-sonnet", "google-gemini-2.5-pro",
     "modelo-inexistente"}

\* pre_generated_response_a / _b as a caller passes them.
PreGenerated ==
    {PyNone, PyStr(<<>>), PyStr(<<"story">>), PyStr(<<"story", "ERROR">>)}

\* What chain_story(...).ainvoke can return.
Completions == {PyStr(<<"tale">>), PyStr(<<"tale", "TIMEOUT">>), PyStr(<<>>)}

\* What an awaited chain can raise.
ChainErrors ==
    {PyExc("ValueError", <<"Invalid json output:", "Assistant A", "is better">>),
     PyExc("TimeoutError", <<"request timed out">>)}

\* What chain_laaj(...).ainvoke can return in workflow.py.
JudgeReplies ==
    {PyDict([Preference |-> PyInt(1)]), PyDict([Preference |-> PyInt(2)]),
     PyDict([Preference |-> PyInt(3)]), PyDict([Reasoning |-> PyStr(<<"story">>)]),
     PyStr(<<"Assistant A", "is better">>), PyNone}

\* timeout_seconds as a caller passes it; asyncio.timeout(0) is due as soon
\* as it is entered.
TimeoutArgs == {PyNone, PyInt(5), PyInt(0)}

NoCalls == [llm_created |-> 0, llm_invoked |-> 0,
            judge_created |-> 0, judge_invoked |-> 0]

EmptyState == [response_a |-> PyNone, response_b |-> PyNone, better_llm |-> PyNone]

\* line 283
Timeout(req) ==
    IF req.timeout_seconds # PyNone THEN req.timeout_seconds.v
    ELSE WORKFLOW_TIMEOUT_SECONDS

\* str(x) where the f-strings of workflow.py format a value
Str(x) == IF x.t \in {"str", "exc"} THEN x.v ELSE <<x.t>>

\* f"{timeout}s": the decimal digits of the timeout, as one token
Seconds(n) ==
    CASE n = 0 -> "0s" [] n = 5 -> "5s" [] n = 30 -> "30s" [] n = 90 -> "90s" [] n = 120 -> "120s"
      [] OTHER -> "s"

\* lines 155-156: response and ("ERROR" in str(response) or "TIMEOUT" in str(response))
ResponseFailed(response) ==
    /\ Truthy(response)
    /\ (Contains(Str(response), "ERROR") \/ Contains(Str(response), "TIMEOUT"))

\* Walkover that reports a double failure as the judge's tie.
WalkoverPlainTie(st, req) ==
    IF ResponseFailed(st.response_a) /\ ResponseFailed(st.response_b)
    THEN PyStr(<<"Empate">>)
    ELSE IF ResponseFailed(st.response_a)
    THEN PyStr(<<req.llm_b, "(vitória por WO - A falhou)">>)
    ELSE IF ResponseFailed(st.response_b)
    THEN PyStr(<<req.llm_a, "(vitória por WO - B falhou)">>)
    ELSE PyNone

\* lines 162-176: the verdict node_judge returns without a judge, or PyNone
\* when both answers pass and the judge has to decide.
Walkover(st, req) ==
    IF ResponseFailed(st.response_a) /\ ResponseFailed(st.response_b)
    THEN PyStr(<<"EMPATE_TÉCNICO", "- Ambos modelos falharam">>)
    ELSE IF ResponseFailed(st.response_a)
    THEN PyStr(<<req.llm_b, "(vitória por WO - A falhou)">>)
    ELSE IF ResponseFailed(st.response_b)
    THEN PyStr(<<req.llm_a, "(vitória por WO - B falhou)">>)
    ELSE PyNone

\* lines 195-217: the verdict for a reply the judge chain returned.
JudgeVerdict(response, req) ==
    IF Truthy(response) /\ response.t = "dict" /\ "Preference" \in DOMAIN response.v
    THEN IF PyEqInt(response.v["Preference"], 1) THEN PyStr(<<req.llm_a>>)
         ELSE IF PyEqInt(response.v["Preference"], 2) THEN PyStr(<<req.llm_b>>)
         ELSE PyStr(<<"Empate">>)
    ELSE PyStr(<<"JUDGE_ERROR", "- Resposta malformada do juiz">>)

\* lines 219-235: the verdict when node_judge catches exception e.
JudgeFailure(e) ==
    IF e.cls = "ValueError"
    THEN PyStr(<<"JUDGE_MODEL_ERROR:">> \o e.v)
    ELSE PyStr(<<"JUDGE_ERROR", "- Empate técnico", e.cls>> \o e.v)

\* An llm node without the pre-generated shortcut.
UsePreGeneratedNever(pre) == FALSE

\* lines 39 / 95: the node takes the supplied answer instead of calling a model.
UsePreGenerated(pre) == Truthy(pre)

\* lines 67-88 / 123-144: the answer an llm node returns when it catches e.
AnswerFailure(side, e) ==
    IF e.cls = "ValueError"
    THEN PyStr(<<"MODELO_ERROR:">> \o e.v)
    ELSE PyStr(<<(IF side = "a" THEN "LLM_A_ERROR:" ELSE "LLM_B_ERROR:"),
                 "Falha na geração de resposta", e.cls>> \o e.v)

\* The record main returns from one of its error handlers (lines 299-309,
\* 331-341, 373-383): both answers replaced by `marker`.
ErrorRecord(req, marker, verdict) ==
    [model_llm_a |-> req.llm_a, model_llm_b |-> req.llm_b,
     response_a |-> PyStr(marker), response_b |-> PyStr(marker),
     better_llm |-> PyStr(verdict), input |-> req.input,
     pre_generated_response_a |-> req.pre_generated_response_a,
     pre_generated_response_b |-> req.pre_generated_response_b,
     execution_time |-> "elapsed_time"]

\* lines 365-383
TimeoutRecord(req, st) ==
    ErrorRecord(req, <<"WORKFLOW_TIMEOUT_ERROR">>,
                <<"TIMEOUT_ERROR", "- Excedeu", Seconds(Timeout(req))>>)

\* lines 343-363: the final graph state plus execution_time
GraphRecord(req, st) ==
    [model_llm_a |-> req.llm_a, model_llm_b |-> req.llm_b,
     response_a |-> st.response_a, response_b |-> st.response_b,
     better_llm |-> st.better_llm, input |-> req.input,
     pre_generated_response_a |-> req.pre_generated_response_a,
     pre_generated_response_b |-> req.pre_generated_response_b,
     execution_time |-> "elapsed_time"]

\* Values graph.ainvoke can hand back that are no final state: None, and a
\* dict with nothing in it.
InvalidResponses == {PyNone, PyDict(<<>>)}

\* main after graph.ainvoke returned `response` (lines 343-363): line 345
\* calls response.get before line 348 tests the response, so a response that
\* is no dict raises AttributeError out of main; an empty dict reaches the
\* test and gives the validation record.
AfterInvoke(req, response) ==
    IF response.t # "dict"
    THEN PyExc("AttributeError", <<"object has no attribute 'get'">>)
    ELSE IF ~Truthy(response)
    THEN ErrorRecord(req, <<"INVALID_WORKFLOW_RESPONSE">>,
                     <<"RESPONSE_VALIDATION_ERROR", "- Resposta inválida do workflow">>)
    ELSE GraphRecord(req, response.v)

Requests ==
    [input : {<<"Amigos">>}, llm_a : ModelNames, llm_b : ModelNames,
     pre_generated_response_a : PreGenerated,
     pre_generated_response_b : PreGenerated,
     timeout_seconds : TimeoutArgs]

\* main is called (lines 267-291): asyncio.timeout is entered, and
\* builder_graph, which awaits nothing, starts to run.
main_Start ==
    /\ main_pc = "idle"
    /\ \E req \in Requests :
         /\ request' = req
         /\ deadline' = IF Timeout(req) <= 0 THEN "due" ELSE "armed"
    /\ main_pc' = "build"
    /\ state' = EmptyState
    /\ node_pc' = [n \in {"llm_1", "llm_2", "judge"} |-> "idle"]
    /\ result' = PyNone
    /\ calls' = NoCalls
    /\ UNCHANGED <<cached_models, config_loaded, active_models>>

\* The time of the deadline passes while main is inside the block of
\* asyncio.timeout (lines 291-363).  The callback that cancels the task runs
\* only when the task is suspended: builder_graph has no await, and neither
\* have the lines main runs after graph.ainvoke returned (343-363) or raised
\* (325-341), so a deadline that passes there cancels nothing.
deadline_Passes ==
    /\ main_pc \in {"build", "graph"}
    /\ deadline = "armed"
    /\ deadline' = "due"
    /\ UNCHANGED <<main_pc, request, state, node_pc, result, calls, cached_models,
                   config_loaded, active_models>>

\* builder_graph returns the compiled graph (lines 236-259) and main invokes it.
builder_graph_Ok ==
    /\ main_pc = "build"
    /\ main_pc' = "graph"
    /\ UNCHANGED <<request, state, node_pc, result, calls, cached_models,
                   config_loaded, active_models, deadline>>

\* builder_graph raises RuntimeError (lines 261-265); main returns (295-309)
\* without having suspended, so a deadline that is due cancels nothing.
builder_graph_Fail ==
    /\ main_pc = "build"
    /\ main_pc' = "done"
    /\ deadline' = IF deadline = "due" THEN "overrun" ELSE "exited"
    /\ result' = ErrorRecord(request, <<"GRAPH_BUILD_ERROR">>,
                             <<"CRITICAL_ERROR", "- Construção do grafo falhou">>)
    /\ UNCHANGED <<request, state, node_pc, calls, cached_models,
                   config_loaded, active_models>>

Side(n) == IF n = "llm_1" THEN "a" ELSE "b"
ModelOf(n) == IF n = "llm_1" THEN request.llm_a ELSE request.llm_b
PreOf(n) ==
    IF n = "llm_1" THEN request.pre_generated_response_a
    ELSE request.pre_generated_response_b
SetResponse(st, n, value) ==
    IF n = "llm_1" THEN [st EXCEPT !.response_a = value]
    ELSE [st EXCEPT !.response_b = value]

\* An llm node runs up to its first await (lines 34-59 / 90-115).
NodeLLMStart(n) ==
    /\ main_pc = "graph"
    /\ node_pc[n] = "idle"
    /\ IF UsePreGenerated(PreOf(n))
       THEN /\ state' = SetResponse(state, n, PreOf(n))
            /\ node_pc' = [node_pc EXCEPT ![n] = "done"]
            /\ UNCHANGED <<calls, cached_models, config_loaded>>
       ELSE \E env \in CreatorOutcomes :
            LET f == FactoryAfterLookup(<<cached_models, config_loaded>>, ModelOf(n))
                e == CreateLLM(<<cached_models, config_loaded>>, ModelOf(n), env)
            IN /\ cached_models' = f[1]
               /\ config_loaded' = f[2]
               /\ IF e = PyNone
                  THEN /\ calls' = [calls EXCEPT !.llm_created = @ + 1,
                                                 !.llm_invoked = @ + 1]
                       /\ node_pc' = [node_pc EXCEPT ![n] = "awaiting"]
                       /\ UNCHANGED state
                  ELSE /\ state' = SetResponse(state, n, AnswerFailure(Side(n), e))
                       /\ node_pc' = [node_pc EXCEPT ![n] = "done"]
                       /\ UNCHANGED calls
    /\ UNCHANGED <<main_pc, request, result, active_models, deadline>>

\* The awaited story chain returns or raises (lines 59-88 / 115-144).
NodeLLMFinish(n) ==
    /\ main_pc = "graph"
    /\ deadline = "armed"
    /\ node_pc[n] = "awaiting"
    /\ \E r \in Completions \cup ChainErrors :
         state' = SetResponse(state, n,
                      IF r.t = "exc" THEN AnswerFailure(Side(n), r) ELSE r)
    /\ node_pc' = [node_pc EXCEPT ![n] = "done"]
    /\ UNCHANGED <<main_pc, request, result, calls, cached_models,
                   config_loaded, active_models, deadline>>

node_llm_a_Start == NodeLLMStart("llm_1")
node_llm_b_Start == NodeLLMStart("llm_2")
node_llm_a_Finish == NodeLLMFinish("llm_1")
node_llm_b_Finish == NodeLLMFinish("llm_2")

\* The edges as they would be if the judge were triggered by whichever
\* answer node returns first.
JudgeTriggeredByEither == node_pc["llm_1"] = "done" \/ node_pc["llm_2"] = "done"

\* The edges llm_1 -> judge and llm_2 -> judge (lines 252-253): both
\* answer nodes run in the step that follows START, and the judge is
\* triggered by the step in which both have returned.
JudgeTriggered == node_pc["llm_1"] = "done" /\ node_pc["llm_2"] = "done"

\* node_judge runs up to its await (lines 147-190): the walkover test,
\* then create_llm (line 182), then chain_laaj (line 183); what either call
\* raises is the verdict of the except clauses (lines 219-235).
node_judge_Start ==
    /\ main_pc = "graph"
    /\ deadline = "armed"
    /\ JudgeTriggered
    /\ node_pc["judge"] = "idle"
    /\ IF Walkover(state, request) # PyNone
       THEN /\ state' = [state EXCEPT !.better_llm = Walkover(state, request)]
            /\ node_pc' = [node_pc EXCEPT !["judge"] = "done"]
            /\ UNCHANGED <<calls, cached_models, config_loaded>>
       ELSE \E env \in CreatorOutcomes, pull \in PromptOutcomes :
            LET f == FactoryAfterLookup(<<cached_models, config_loaded>>, "gpt-5")
                created == CreateLLM(<<cached_models, config_loaded>>, "gpt-5", env) = PyNone
                e == JudgeChain(<<cached_models, config_loaded>>, "gpt-5", env, pull)
            IN /\ cached_models' = f[1]
               /\ config_loaded' = f[2]
               /\ calls' = [calls EXCEPT
                              !.judge_created = IF created THEN @ + 1 ELSE @,
                              !.judge_invoked = IF e = PyNone THEN @ + 1 ELSE @]
               /\ IF e = PyNone
                  THEN /\ node_pc' = [node_pc EXCEPT !["judge"] = "awaiting"]
                       /\ UNCHANGED state
                  ELSE /\ state' = [state EXCEPT !.better_llm = JudgeFailure(e)]
                       /\ node_pc' = [node_pc EXCEPT !["judge"] = "done"]
    /\ UNCHANGED <<main_pc, request, result, active_models, deadline>>

\* The awaited judge chain returns or raises (lines 186-235).
node_judge_Finish ==
    /\ main_pc = "graph"
    /\ deadline = "armed"
    /\ node_pc["judge"] = "awaiting"
    /\ \E r \in JudgeReplies \cup ChainErrors :
         state' = [state EXCEPT !.better_llm =
                      IF r.t = "exc" THEN JudgeFailure(r)
                      ELSE JudgeVerdict(r, request)]
    /\ node_pc' = [node_pc EXCEPT !["judge"] = "done"]
    /\ UNCHANGED <<main_pc, request, result, calls, cached_models,
                   config_loaded, active_models, deadline>>

\* graph.ainvoke returns and main returns the final state (lines 343-363).
\* These lines have no await: when the time of the deadline passes while
\* they run, main still returns the final state, uncancelled.
main_Return ==
    /\ main_pc = "graph"
    /\ deadline \in {"armed", "due"}
    /\ node_pc["judge"] = "done"
    /\ main_pc' = "done"
    /\ deadline' = IF deadline = "due" THEN "overrun" ELSE "exited"
    /\ result' = AfterInvoke(request, PyDict(state))
    /\ UNCHANGED <<request, state, node_pc, calls, cached_models,
                   config_loaded, active_models>>

\* The deadline fires while graph.ainvoke is suspended: the task is cancelled
\* and main returns the timeout record (lines 365-383).  A deadline that
\* is due fires at the next suspension of graph.ainvoke: the answer nodes
\* may have run up to their first await by then, and nothing that was
\* awaited returns after the time has passed.
main_Timeout ==
    /\ main_pc = "graph"
    /\ deadline \in {"armed", "due"}
    /\ main_pc' = "done"
    /\ deadline' = "expired"
    /\ result' = TimeoutRecord(request, state)
    /\ UNCHANGED <<request, state, node_pc, calls, cached_models,
                   config_loaded, active_models>>

\* graph.ainvoke raises and the handler returns the error record (lines
\* 325-341).  The handler has no await: when the time of the deadline has
\* passed before it ends, main still returns the record, uncancelled.
main_WorkflowError ==
    /\ main_pc = "graph"
    /\ deadline \in {"armed", "due"}
    /\ main_pc' = "done"
    /\ deadline' = IF deadline = "due" THEN "overrun" ELSE "exited"
    /\ result' = ErrorRecord(request, <<"WORKFLOW_EXECUTION_ERROR:", "GraphError">>,
                             <<"WORKFLOW_ERROR", "- Execução falhou">>)
    /\ UNCHANGED <<request, state, node_pc, calls, cached_models,
                   config_loaded, active_models>>

\* graph.ainvoke returns something that is no final state.
main_InvalidResponse ==
    /\ main_pc = "graph"
    /\ deadline \in {"armed", "due"}
    /\ node_pc["judge"] = "done"
    /\ \E response \in InvalidResponses :
         /\ result' = AfterInvoke(request, response)
         /\ main_pc' = IF response.t # "dict" THEN "raised" ELSE "done"
    /\ deadline' = IF deadline = "due" THEN "overrun" ELSE "exited"
    /\ UNCHANGED <<request, state, node_pc, calls, cached_models,
                   config_loaded, active_models>>

IdleParse == /\ parse_in = PyNone /\ parse_out = PyNone
IdleCompare == /\ cmp_pc = "idle" /\ cmp_in = PyNone
               /\ cmp_judge = PyNone /\ cmp_out = PyNone
IdleBatch == /\ batch_pc = "idle" /\ batch_in = <<>> /\ batch_raw = PyNone
             /\ batch_results = PyNone /\ batch_out = PyNone
IdleStats == /\ stats_in = <<>> /\ stats_out = PyNone
IdleWorkflow ==
    /\ main_pc = "idle" /\ request = PyNone /\ state = EmptyState
    /\ node_pc = [n \in {"llm_1", "llm_2", "judge"} |-> "idle"]
    /\ result = PyNone /\ calls = NoCalls /\ deadline = "created"

\* The factory before its first use, or after an earlier request loaded it
\* from what the registry serves now, or after an earlier request loaded
\* the fallback functions while models_config.json was not yet written.
InitFactory ==
    /\ active_models \in
          {FallbackActiveModels,
           <<>>,
           FileActiveModels(<<"claude-4-sonnet", "google-gemini-2.5-pro", "gpt-5">>, {}),
           FileActiveModels(<<"claude-4-sonnet", "google-gemini-2.5-pro", "gpt-5">>,
                            {"gpt-5"}),
           FileActiveModels(<<"gpt-5", "claude-4-sonnet", "google-gemini-2.5-pro">>,
                            {"google-gemini-2.5-pro"})}
    /\ \/ cached_models = <<>> /\ config_loaded = FALSE
       \/ cached_models = LoadModelsFromConfig(<<>>) /\ config_loaded = TRUE
       \/ cached_models = FallbackOrder /\ config_loaded = TRUE

Init ==
    /\ IdleWorkflow /\ InitFactory
    /\ IdleParse /\ IdleCompare /\ IdleBatch /\ IdleStats
    /\ IdleRegistry /\ IdleCreate /\ IdleHttp

Next ==
    /\ \/ main_Start
       \/ deadline_Passes
       \/ builder_graph_Ok
       \/ builder_graph_Fail
       \/ node_llm_a_Start
       \/ node_llm_b_Start
       \/ node_llm_a_Finish
       \/ node_llm_b_Finish
       \/ node_judge_Start
       \/ node_judge_Finish
       \/ main_Return
       \/ main_Timeout
       \/ main_WorkflowError
       \/ main_InvalidResponse
    /\ UNCHANGED <<vars_parse, vars_cmp, vars_batch, vars_stats, vars_reg, vars_fac,
                   vars_http>>

Spec == Init /\ [][Next]_vars

(***************************************************************************)
(* parse_judge_response (workflow/workflow_backup.py)                      *)
(***************************************************************************)
\* Largest integer drawn for the judge's 'Preference' field.
MaxPreference == 3
\* Longest free-text judge reply, in tokens.
MaxTextLen == 3
\* response[:500]; lengths are counted in tokens.
ReasoningLimit == 500

\* d.get(k, None)
Get(d, k) == IF k \in DOMAIN d THEN d[k] ELSE PyNone

\* a or b
Or(a, b) == IF Truthy(a) THEN a ELSE b

\* text[:n] + "..." if len(text) > n else text
Truncate(text, n) ==
    IF Len(text) > n THEN SubSeq(text, 1, n) \o <<"...">> ELSE text

\* if resultado == 1 / elif resultado == 2 / else, with a bound of its own
\* on the wrong side: every Preference from 2 up reads as B.
PreferenceVerdictFromTwoUp(resultado) ==
    IF PyEqInt(resultado, 1) THEN <<"A">>
    ELSE IF resultado.t = "int" /\ resultado.v >= 2 THEN <<"B">>
    ELSE <<"Empate">>

\* if resultado == 1 / elif resultado == 2 / else
PreferenceVerdict(resultado) ==
    IF PyEqInt(resultado, 1) THEN <<"A">>
    ELSE IF PyEqInt(resultado, 2) THEN <<"B">>
    ELSE <<"Empate">>

\* The structured branch.
ParseDict(response) ==
    [better_response |-> PreferenceVerdict(response["Preference"]),
     judge_reasoning |-> Or(Get(response, "Reasoning"),
                            Get(response, "reasoning"))]

\* "<label>" in t and "winner:" in t and "<label>" in t[t.find("winner:"):]
WinnerNamed(response_text, label) ==
    /\ Contains(response_text, label)
    /\ Contains(response_text, "winner:")
    /\ Contains(From(response_text, Find(response_text, "winner:")), label)

\* The if/elif chain of the free-text branch, on the lower-cased text.
TextVerdict(response_text) ==
    IF WinnerNamed(response_text, "assistant a") THEN <<"A">>
    ELSE IF WinnerNamed(response_text, "assistant b") THEN <<"B">>
    ELSE IF Contains(response_text, "empate") \/ Contains(response_text, "tie")
    THEN <<"Empate">>
    ELSE IF Count(response_text, "assistant a") > Count(response_text, "assistant b")
    THEN <<"A">>
    ELSE IF Count(response_text, "assistant b") > Count(response_text, "assistant a")
    THEN <<"B">>
    ELSE <<"Empate">>

\* The free-text branch.
ParseText(response) ==
    [better_response |-> TextVerdict(Lower(response)),
     judge_reasoning |-> PyStr(Truncate(response, ReasoningLimit))]

\* The else branch raising instead of returning.
ParseMalformedRaises(response) ==
    PyExc("TypeError", <<"unexpected judge response:">> \o Str(response))

\* The else branch: the reply is neither a dict with 'Preference' nor a
\* non-empty str.
ParseMalformed(response) ==
    [better_response |-> <<"ERRO", "- Resposta malformada do judge">>,
     judge_reasoning |-> PyStr(<<"O judge retornou uma resposta inesperada:">>
                               \o Str(response))]

\* parse_judge_response.  No statement of its try block raises for the
\* values below, so the two except clauses (lines 114-203) have no
\* counterpart here.
parse_judge_response(response) ==
    IF Truthy(response) /\ response.t = "dict" /\ "Preference" \in DOMAIN response.v
    THEN ParseDict(response.v)
    ELSE IF Truthy(response) /\ response.t = "str"
    THEN ParseText(response.v)
    ELSE ParseMalformed(response)

\* The tokens free-text replies are made of.
Vocabulary ==
    {"Assistant A", "assistant b", "Winner:", "tie", "Empate", "is better",
     "entities", "good"}

Texts == UNION {[1..n -> Vocabulary] : n \in 0..MaxTextLen}

PreferenceValues ==
    {PyInt(n) : n \in 0..MaxPreference}
        \cup {PyBool(TRUE), PyStr(<<"1">>), PyNone}

ReasoningValues == {PyStr(<<"good">>), PyStr(<<>>), PyNone}

DictFields ==
    [Preference |-> PreferenceValues, Reasoning |-> ReasoningValues,
     reasoning |-> {PyStr(<<"fine">>), PyStr(<<>>), PyNone}]

\* Every dict over a subset of the three fields.
Dicts ==
    UNION {{d \in [keys -> UNION {DictFields[k] : k \in keys}] :
                \A k \in keys : d[k] \in DictFields[k]} :
           keys \in SUBSET DOMAIN DictFields}

\* What a judge chain can hand to the parser: JSON objects, text, None, a
\* number, and the exception node_judge passes on.
RawOutputs ==
    {PyDict(d) : d \in Dicts} \cup {PyStr(s) : s \in Texts}
        \cup {PyNone, PyInt(7),
              PyExc("ValueError", <<"Invalid json output:", "Assistant A", "is better">>)}

\* One call of the parser on the reply held in parse_in.
parse_judge_response_Call ==
    /\ parse_out = PyNone
    /\ parse_out' = parse_judge_response(parse_in)
    /\ UNCHANGED <<parse_in, vars_wf, vars_reg, vars_fac, vars_factory, vars_cmp,
                   vars_batch, vars_stats>>

IdleFactory ==
    /\ cached_models = <<>> /\ config_loaded = FALSE
    /\ active_models = FallbackActiveModels

InitParse ==
    /\ IdleWorkflow /\ IdleFactory
    /\ parse_in \in RawOutputs /\ parse_out = PyNone
    /\ IdleCompare /\ IdleBatch /\ IdleStats
    /\ IdleRegistry /\ IdleCreate /\ IdleHttp

NextParse == parse_judge_response_Call /\ UNCHANGED vars_http

SpecParse == InitParse /\ [][NextParse]_vars

(***************************************************************************)
(* The judge-only comparison: node_judge and main of                       *)
(* workflow/workflow_backup.py                                             *)
(***************************************************************************)
\* text.strip(): the token " " stands for a run of whitespace.
Strip(text) ==
    LET solid == {i \in 1..Len(text) : text[i] # " "}
    IN IF solid = {} THEN <<>>
       ELSE SubSeq(text, CHOOSE i \in solid : \A j \in solid : i <= j,
                         CHOOSE i \in solid : \A j \in solid : i >= j)

\* not x or not x.strip()
Blank(x) == ~Truthy(x) \/ Len(Strip(x.v)) = 0

\* x.strip() on a truthy value that is not a str
NoStrip(x) == Truthy(x) /\ x.t # "str"

\* The three input checks of main, in their order: the exception raised (the
\* ValueError of a check, or the AttributeError of .strip() on a value that
\* is no str), or None when the inputs pass.
ValidateInputs(args) ==
    IF NoStrip(args.response_a)
    THEN PyExc("AttributeError", <<"object has no attribute 'strip'">>)
    ELSE IF Blank(args.response_a)
    THEN PyExc("ValueError", <<"response_a não pode ser vazia">>)
    ELSE IF NoStrip(args.response_b)
    THEN PyExc("AttributeError", <<"object has no attribute 'strip'">>)
    ELSE IF Blank(args.response_b)
    THEN PyExc("ValueError", <<"response_b não pode ser vazia">>)
    ELSE IF NoStrip(args.input_question)
    THEN PyExc("AttributeError", <<"object has no attribute 'strip'">>)
    ELSE IF Blank(args.input_question)
    THEN PyExc("ValueError", <<"input_question não pode ser vazio">>)
    ELSE PyNone

\* The ComparisonState main hands to node_judge.
ComparisonState(args) ==
    [input |-> Strip(args.input_question.v),
     response_a |-> Strip(args.response_a.v),
     response_b |-> Strip(args.response_b.v),
     model_a_name |-> args.model_a_name,
     model_b_name |-> args.model_b_name,
     better_response |-> <<>>,
     judge_reasoning |-> PyNone]

\* isinstance(e, ValueError): the parser exception of the chain and the
\* schema validation error derive from ValueError.
IsValueError(e) ==
    e.cls \in {"ValueError", "OutputParserException", "ValidationError"}

\* The two inner except clauses of node_judge: a ValueError is handed to the
\* parser as the exception object, anything else becomes the judge failure.
NodeJudgeOnError(e) ==
    IF IsValueError(e) THEN parse_judge_response(e)
    ELSE [better_response |-> <<"ERRO", "- Falha no modelo judge">>,
          judge_reasoning |-> PyStr(<<"Erro durante execução do judge:", e.cls>>
                                    \o e.v)]

\* node_judge handing a text reply of the judge through as the verdict.
NodeJudgeResultRaw(r) ==
    IF r.t = "exc" THEN NodeJudgeOnError(r)
    ELSE IF r.t = "str"
    THEN [better_response |-> r.v, judge_reasoning |-> PyNone]
    ELSE parse_judge_response(r)

\* What node_judge returns for what the awaited chain did.
NodeJudgeResult(r) ==
    IF r.t = "exc" THEN NodeJudgeOnError(r) ELSE parse_judge_response(r)

\* final_result of main; execution_time is wall-clock time and is left out.
FinalResult(args, judge_result) ==
    [input |-> args.input_question,
     response_a |-> args.response_a,
     response_b |-> args.response_b,
     model_a_name |-> args.model_a_name,
     model_b_name |-> args.model_b_name,
     better_response |-> judge_result.better_response,
     judge_reasoning |-> judge_result.judge_reasoning]

\* except asyncio.TimeoutError of main
BackupTimeoutRecord(args) ==
    [input |-> args.input_question,
     response_a |-> args.response_a,
     response_b |-> args.response_b,
     model_a_name |-> args.model_a_name,
     model_b_name |-> args.model_b_name,
     better_response |-> <<"TIMEOUT", "- Excedeu", Seconds(args.timeout_seconds)>>,
     judge_reasoning |-> PyStr(<<"A comparação foi interrompida por timeout">>)]

\* except ValueError and except Exception of main (lines 446-475)
ValidationRecord(args, e) ==
    [input |-> Or(args.input_question, PyStr(<<>>)),
     response_a |-> Or(args.response_a, PyStr(<<>>)),
     response_b |-> Or(args.response_b, PyStr(<<>>)),
     model_a_name |-> args.model_a_name,
     model_b_name |-> args.model_b_name,
     better_response |-> IF IsValueError(e) THEN <<"ERRO", "- Validação falhou">>
                         ELSE <<"ERRO", "-", e.cls>>,
     judge_reasoning |-> IF IsValueError(e)
                         THEN PyStr(<<"Erro de validação de entrada:">> \o e.v)
                         ELSE PyStr(<<"Falha inesperada durante a comparação:">>
                                    \o e.v)]

\* The arguments main is called with; 30 is the default of timeout_seconds.
CompareArgs ==
    [input_question : {PyStr(<<"question">>), PyStr(<<>>)},
     response_a : {PyStr(<<"story">>), PyStr(<<" ", "story", " ">>),
                   PyStr(<<" ">>), PyNone},
     response_b : {PyStr(<<"tale">>), PyStr(<<>>), PyInt(7)},
     model_a_name : {PyNone, PyStr(<<"model-x">>)},
     model_b_name : {PyNone},
     timeout_seconds : {30, 5}]

\* What the awaited judge chain can raise in node_judge.
JudgeChainErrors ==
    {PyExc("OutputParserException", <<"Invalid json output:">> \o text) :
        text \in {<<"Assistant A", "is better">>, <<"Winner:", "assistant b">>,
                  <<"Empate">>}}
      \cup {PyExc("ValueError", <<"bad value">>),
            PyExc("TimeoutError", <<"request timed out">>)}

\* What the awaited judge chain can return in node_judge.
JudgeChainReplies == {r \in RawOutputs : r.t # "exc"}

\* The id node_judge and batch_judge_processing hand to LLMFactory.create_llm.
JudgeModel == "claude-4-sonnet"

\* main called with `args` validates its inputs and node_judge runs up to
\* its await (main lines 384-410, node_judge lines 212-234); `env` is how
\* the creator of the judge client behaves and `pull` how the pull of the
\* judge prompt does.
MainCalled(args, env, pull) ==
    /\ cmp_in' = args
    /\ IF ValidateInputs(args) # PyNone
       THEN /\ cmp_out' = ValidationRecord(args, ValidateInputs(args))
            /\ cmp_pc' = "done"
            /\ UNCHANGED <<cmp_judge, cached_models, config_loaded>>
       ELSE LET f == FactoryAfterLookup(<<cached_models, config_loaded>>, JudgeModel)
                e == JudgeChain(<<cached_models, config_loaded>>, JudgeModel, env, pull)
            IN /\ cached_models' = f[1]
               /\ config_loaded' = f[2]
               /\ IF e = PyNone
                  THEN /\ cmp_pc' = "awaiting"
                       /\ cmp_judge' = [state |-> ComparisonState(args),
                                        model |-> JudgeModel, reply |-> PyNone]
                       /\ UNCHANGED cmp_out
                  ELSE /\ cmp_pc' = "done"
                       /\ cmp_judge' = [state |-> ComparisonState(args),
                                        model |-> JudgeModel, reply |-> e]
                       /\ cmp_out' = FinalResult(args, NodeJudgeOnError(e))

\* main is called directly, with any arguments.
backup_main_Start ==
    /\ cmp_pc = "idle"
    /\ \E args \in CompareArgs, env \in CreatorOutcomes, pull \in PromptOutcomes :
         MainCalled(args, env, pull)
    /\ UNCHANGED <<active_models, vars_wf, vars_reg, vars_fac, vars_parse, vars_batch, vars_stats>>

\* The awaited judge chain returns or raises; node_judge returns and main
\* merges its result (node_judge lines 229-254, main lines 412-429).
backup_node_judge_Finish ==
    /\ cmp_pc = "awaiting"
    /\ \E r \in JudgeChainReplies \cup JudgeChainErrors :
         /\ cmp_judge' = [cmp_judge EXCEPT !.reply = r]
         /\ cmp_out' = FinalResult(cmp_in, NodeJudgeResult(r))
    /\ cmp_pc' = "done"
    /\ UNCHANGED <<cmp_in, vars_factory, vars_wf, vars_reg, vars_fac, vars_parse, vars_batch,
                   vars_stats>>

\* The deadline of asyncio.timeout fires while the judge chain is awaited
\* (main lines 431-446).
backup_main_Timeout ==
    /\ cmp_pc = "awaiting"
    /\ cmp_out' = BackupTimeoutRecord(cmp_in)
    /\ cmp_pc' = "done"
    /\ UNCHANGED <<cmp_in, cmp_judge, vars_factory, vars_wf, vars_reg, vars_fac, vars_parse,
                   vars_batch, vars_stats>>

InitCompare ==
    /\ IdleWorkflow /\ InitFactory
    /\ IdleParse /\ IdleCompare /\ IdleBatch /\ IdleStats
    /\ IdleRegistry /\ IdleCreate /\ IdleHttp

NextCompare ==
    /\ \/ backup_main_Start
       \/ backup_node_judge_Finish
       \/ backup_main_Timeout
    /\ UNCHANGED vars_http

SpecCompare == InitCompare /\ [][NextCompare]_vars

(***************************************************************************)
(* Batch judging: the schemas of api/schemas/compare.py,                   *)
(* batch_judge_processing of workflow/workflow_backup.py and               *)
(* compare_models_batch of api/routers/compare.py                          *)
(***************************************************************************)
\* Longest batch request drawn, in comparisons.
MaxBatch == 3
\* Longest list of batch results handed to the statistics.
MaxResults == 3

PyList(s) == [t |-> "list", v |-> s]

\* The fields BatchComparisonResult declares with Field(...): a constructor
\* call that leaves one out raises pydantic's ValidationError.  The id field
\* has a default factory (a fresh uuid) and is left out.
BatchComparisonResultRequired ==
    {"input", "response_a", "response_b", "judge_model_used", "better_response"}

\* BatchComparisonResult(**fields): the instance, or the ValidationError.
BatchComparisonResult(fields) ==
    IF BatchComparisonResultRequired \subseteq DOMAIN fields
    THEN [t |-> "BatchComparisonResult", v |-> fields]
    ELSE PyExc("ValidationError", <<"Field required">>)

\* The keyword arguments every construction site of batch results passes.
ResultFields(comparison, better_response, judge_reasoning) ==
    [input |-> comparison.input,
     response_a |-> comparison.response_a,
     response_b |-> comparison.response_b,
     model_a_name |-> comparison.model_a_name,
     model_b_name |-> comparison.model_b_name,
     better_response |-> better_response,
     judge_reasoning |-> judge_reasoning]

\* One turn of the loop over zip(comparisons, batch_results): the record
\* appended, or the exception that leaves the turn.  The except clause of the
\* turn builds a record the same way, so what it raises leaves the loop.
BatchItem(comparison, judge_result) ==
    LET parsed_result == parse_judge_response(judge_result)
        built == BatchComparisonResult(
                    ResultFields(comparison, parsed_result.better_response,
                                 parsed_result.judge_reasoning))
    IN IF built.t # "exc" THEN built
       ELSE BatchComparisonResult(
               ResultFields(comparison,
                            <<"ERRO", "- Falha no processamento individual">>,
                            PyStr(<<"Erro durante processamento da comparação:",
                                    built.cls>> \o built.v)))

\* A list comprehension that stops at the first exception: the list, or the
\* first exception an element raised.
Collect(items) ==
    IF \E i \in 1..Len(items) : items[i].t = "exc"
    THEN items[CHOOSE i \in 1..Len(items) :
                  /\ items[i].t = "exc"
                  /\ \A j \in 1..(i - 1) : items[j].t # "exc"]
    ELSE PyList(items)

\* min(a, b), the length of a zip
Shorter(a, b) == IF Len(a) <= Len(b) THEN Len(a) ELSE Len(b)

\* The loop of step 4 (lines 296-333).
BatchLoop(comparisons, batch_results_raw) ==
    Collect([i \in 1..Shorter(comparisons, batch_results_raw) |->
                BatchItem(comparisons[i], batch_results_raw[i])])

\* The outer except clause (lines 338-356): one error record per comparison,
\* or the exception raised while building them.
BatchCritical(comparisons, e) ==
    Collect([i \in 1..Len(comparisons) |->
                BatchComparisonResult(
                    ResultFields(comparisons[i],
                                 <<"ERRO", "- Falha crítica no batch">>,
                                 PyStr(<<"Erro crítico durante processamento batch:",
                                         e.cls>> \o e.v)))])

\* batch_judge_processing after create_llm raised or chain.abatch returned or
\* raised (`outcome` is the exception or the list of judge outputs): the
\* list it returns, or the exception that leaves it.
batch_judge_processing(comparisons, outcome) ==
    LET body == IF outcome.t = "exc" THEN outcome
                ELSE BatchLoop(comparisons, outcome.v)
    IN IF body.t = "exc" THEN BatchCritical(comparisons, body) ELSE body

\* s.startswith(key) for the first token of s, at character level.
Prefixes(w) ==
    CASE w = "ERROR"         -> {w, "ERRO"}
      [] w = "TIMEOUT_ERROR" -> {w, "TIMEOUT"}
      [] OTHER               -> {w}

StartsWith(text, key) == Len(text) > 0 /\ key \in Prefixes(text[1])

NoStats ==
    [model_a_wins |-> 0, model_b_wins |-> 0, ties |-> 0, errors |-> 0,
     successful_count |-> 0]

\* The body of the statistics loop without the `successful_count -= 1` of
\* its last branch.
StatsStepUncompensated(acc, better_response) ==
    IF StartsWith(better_response, "ERRO") \/ StartsWith(better_response, "TIMEOUT")
    THEN [acc EXCEPT !.errors = @ + 1]
    ELSE IF better_response = <<"A">>
    THEN [acc EXCEPT !.successful_count = @ + 1, !.model_a_wins = @ + 1]
    ELSE IF better_response = <<"B">>
    THEN [acc EXCEPT !.successful_count = @ + 1, !.model_b_wins = @ + 1]
    ELSE IF better_response = <<"Empate">>
    THEN [acc EXCEPT !.successful_count = @ + 1, !.ties = @ + 1]
    ELSE [acc EXCEPT !.successful_count = @ + 1, !.errors = @ + 1]

\* The body of the statistics loop (router lines 82-95).
StatsStep(acc, better_response) ==
    IF StartsWith(better_response, "ERRO") \/ StartsWith(better_response, "TIMEOUT")
    THEN [acc EXCEPT !.errors = @ + 1]
    ELSE IF better_response = <<"A">>
    THEN [acc EXCEPT !.successful_count = @ + 1, !.model_a_wins = @ + 1]
    ELSE IF better_response = <<"B">>
    THEN [acc EXCEPT !.successful_count = @ + 1, !.model_b_wins = @ + 1]
    ELSE IF better_response = <<"Empate">>
    THEN [acc EXCEPT !.successful_count = @ + 1, !.ties = @ + 1]
    ELSE [acc EXCEPT !.errors = @ + 1]

\* for result in batch_results (router lines 75-95)
RECURSIVE StatsLoop(_, _)
StatsLoop(results, acc) ==
    IF results = <<>> THEN acc
    ELSE StatsLoop(Tail(results), StatsStep(acc, Head(results).v.better_response))

\* The if/elif chain of the best model with the first two comparisons
\* admitting equality.
BestModelLoose(model_a_wins, model_b_wins) ==
    IF model_a_wins >= model_b_wins THEN <<"A">>
    ELSE IF model_b_wins >= model_a_wins THEN <<"B">>
    ELSE IF model_a_wins = model_b_wins /\ (model_a_wins > 0 \/ model_b_wins > 0)
    THEN <<"Empate">>
    ELSE <<"N/A">>

\* The if/elif chain of the best model (router lines 98-105).
BestModel(model_a_wins, model_b_wins) ==
    IF model_a_wins > model_b_wins THEN <<"A">>
    ELSE IF model_b_wins > model_a_wins THEN <<"B">>
    ELSE IF model_a_wins = model_b_wins /\ (model_a_wins > 0 \/ model_b_wins > 0)
    THEN <<"Empate">>
    ELSE <<"N/A">>

\* The BatchComparisonResponse of the normal path (router lines 112-122);
\* execution_time is wall-clock time and is left out.
BatchStatsResponse(results, total_comparisons) ==
    LET acc == StatsLoop(results, NoStats)
    IN [results |-> results,
        total_comparisons |-> total_comparisons,
        successful |-> acc.successful_count,
        model_a_wins |-> acc.model_a_wins,
        model_b_wins |-> acc.model_b_wins,
        ties |-> acc.ties,
        errors |-> acc.errors,
        best_model |-> BestModel(acc.model_a_wins, acc.model_b_wins)]

\* The BatchComparisonResponse of the timeout and the generic handlers.
BatchFailureResponse(results, total_comparisons) ==
    [results |-> results,
     total_comparisons |-> total_comparisons,
     successful |-> 0, model_a_wins |-> 0, model_b_wins |-> 0, ties |-> 0,
     errors |-> total_comparisons, best_model |-> <<"N/A">>]

\* What the client receives: a status code with a body, the body being the
\* response model, the detail of an HTTPException, or the unhandled
\* exception behind a 500.
HTTP(status_code, body) == [t |-> "http", status_code |-> status_code, body |-> body]

\* A handler of the endpoint that builds one record per comparison and
\* returns the failure response: what builds raises leaves the endpoint.
BatchHandler(comparisons, better_response, judge_reasoning) ==
    LET results == Collect([i \in 1..Len(comparisons) |->
                               BatchComparisonResult(
                                   ResultFields(comparisons[i], better_response,
                                                judge_reasoning))])
    IN IF results.t = "exc" THEN HTTP(500, results)
       ELSE HTTP(200, BatchFailureResponse(results.v, Len(comparisons)))

\* compare_models_batch once batch_judge_processing returned or raised
\* `processed` (router lines 72-122 and 155-189).
BatchEndpoint(comparisons, processed) ==
    IF processed.t = "list"
    THEN HTTP(200, BatchStatsResponse(processed.v, Len(comparisons)))
    ELSE IF IsValueError(processed) THEN HTTP(422, processed)
    ELSE BatchHandler(comparisons, <<"ERRO", "-", processed.cls>>,
                      PyStr(<<"Falha inesperada durante processamento batch:">>
                            \o processed.v))

\* except asyncio.TimeoutError of the endpoint (router lines 124-153).
BatchTimeout(comparisons) ==
    BatchHandler(comparisons, <<"TIMEOUT", "- Excedeu", Seconds(90)>>,
                 PyStr(<<"O processamento batch foi interrompido por timeout">>))

\* The comparisons a batch request is made of.
Comparisons ==
    [input : {PyStr(<<"question">>)},
     response_a : {PyStr(<<"story">>)},
     response_b : {PyStr(<<"tale">>), PyStr(<<"story">>)},
     model_a_name : {PyNone, PyStr(<<"model-x">>)},
     model_b_name : {PyNone}]

\* request.comparisons: the schema admits two comparisons or more.
BatchRequests == UNION {[1..n -> Comparisons] : n \in 2..MaxBatch}

\* What chain.abatch can hold at one position of its result.
BatchJudgeOutputs ==
    {PyDict([Preference |-> PyInt(1)]),
     PyDict([Preference |-> PyInt(2), Reasoning |-> PyStr(<<"good">>)]),
     PyStr(<<"Empate">>), PyNone}

\* The handler of the batch endpoint is entered with request.comparisons:
\* batch_judge_processing builds its inputs and the judge client and awaits
\* chain.abatch; a client or a chain that cannot be built ends the request
\* at once (backup lines 274-291, router lines 66-72).
BatchCalled(comparisons, env, pull) ==
    LET f == FactoryAfterLookup(<<cached_models, config_loaded>>, JudgeModel)
        e == JudgeChain(<<cached_models, config_loaded>>, JudgeModel, env, pull)
    IN /\ batch_in' = comparisons
       /\ cached_models' = f[1]
       /\ config_loaded' = f[2]
       /\ IF e = PyNone
          THEN /\ batch_pc' = "awaiting"
               /\ UNCHANGED <<batch_raw, batch_results, batch_out>>
          ELSE /\ batch_pc' = "done"
               /\ batch_raw' = e
               /\ batch_results' = batch_judge_processing(comparisons, e)
               /\ batch_out' = BatchEndpoint(comparisons,
                                  batch_judge_processing(comparisons, e))

\* The endpoint starts with a request the schema admitted.
compare_models_batch_Start ==
    /\ batch_pc = "idle"
    /\ \E comparisons \in BatchRequests, env \in CreatorOutcomes, pull \in PromptOutcomes :
         BatchCalled(comparisons, env, pull)
    /\ UNCHANGED <<active_models, vars_wf, vars_reg, vars_fac, vars_parse, vars_cmp, vars_stats>>

\* chain.abatch returns one judge output per input; batch_judge_processing
\* builds its records and the endpoint its response.
batch_judge_processing_Return ==
    /\ batch_pc = "awaiting"
    /\ \E outputs \in [1..Len(batch_in) -> BatchJudgeOutputs] :
         /\ batch_raw' = PyList(outputs)
         /\ batch_results' = batch_judge_processing(batch_in, PyList(outputs))
         /\ batch_out' = BatchEndpoint(batch_in,
                            batch_judge_processing(batch_in, PyList(outputs)))
    /\ batch_pc' = "done"
    /\ UNCHANGED <<batch_in, vars_factory, vars_wf, vars_reg, vars_fac, vars_parse, vars_cmp,
                   vars_stats>>

\* chain.abatch raises.
batch_judge_processing_Raise ==
    /\ batch_pc = "awaiting"
    /\ \E e \in JudgeChainErrors :
         /\ batch_raw' = e
         /\ batch_results' = batch_judge_processing(batch_in, e)
         /\ batch_out' = BatchEndpoint(batch_in, batch_judge_processing(batch_in, e))
    /\ batch_pc' = "done"
    /\ UNCHANGED <<batch_in, vars_factory, vars_wf, vars_reg, vars_fac, vars_parse, vars_cmp,
                   vars_stats>>

\* The deadline of asyncio.timeout(90) fires while chain.abatch is awaited.
compare_models_batch_Timeout ==
    /\ batch_pc = "awaiting"
    /\ batch_out' = BatchTimeout(batch_in)
    /\ batch_pc' = "done"
    /\ UNCHANGED <<batch_in, batch_raw, batch_results, vars_factory, vars_wf, vars_reg, vars_fac,
                   vars_parse, vars_cmp, vars_stats>>

InitBatch ==
    /\ IdleWorkflow /\ InitFactory
    /\ IdleParse /\ IdleCompare /\ IdleBatch /\ IdleStats
    /\ IdleRegistry /\ IdleCreate /\ IdleHttp

NextBatch ==
    /\ \/ compare_models_batch_Start
       \/ batch_judge_processing_Return
       \/ batch_judge_processing_Raise
       \/ compare_models_batch_Timeout
    /\ UNCHANGED vars_http

SpecBatch == InitBatch /\ [][NextBatch]_vars

(***************************************************************************)
(* The statistics of compare_models_batch on a list of batch results       *)
(***************************************************************************)
\* The verdicts a batch result can carry: the three outcomes, the error and
\* timeout markers, and strings that are none of them.
StatsVerdicts ==
    {<<"A">>, <<"B">>, <<"Empate">>, <<"ERRO", "- Falha crítica no batch">>,
     <<"TIMEOUT", "- Excedeu", "90s">>, <<"ERROR">>, <<"a">>, <<>>}

\* A batch result carrying the verdict.
ResultWith(better_response) ==
    BatchComparisonResult(
        [input |-> PyStr(<<"question">>), response_a |-> PyStr(<<"story">>),
         response_b |-> PyStr(<<"tale">>), judge_model_used |-> PyStr(<<"claude-4-sonnet">>),
         better_response |-> better_response])

ResultLists ==
    UNION {[1..n -> {ResultWith(v) : v \in StatsVerdicts}] : n \in 0..MaxResults}

\* The statistics of the normal path on the results held in stats_in, for a
\* request of as many comparisons.
compare_models_batch_Stats ==
    /\ stats_out = PyNone
    /\ stats_out' = BatchStatsResponse(stats_in, Len(stats_in))
    /\ UNCHANGED <<stats_in, vars_factory, vars_wf, vars_reg, vars_fac, vars_parse, vars_cmp,
                   vars_batch>>

InitStats ==
    /\ IdleWorkflow /\ IdleFactory
    /\ IdleParse /\ IdleCompare /\ IdleBatch
    /\ IdleRegistry /\ IdleCreate /\ IdleHttp
    /\ stats_in \in ResultLists /\ stats_out = PyNone

NextStats == compare_models_batch_Stats /\ UNCHANGED vars_http

SpecStats == InitStats /\ [][NextStats]_vars

(***************************************************************************)
(* The endpoints of api/routers/compare.py behind their request schemas    *)
(* (api/schemas/compare.py).  A JSON body is a record; FastAPI validates   *)
(* it against the schema before the handler runs and answers 422 itself    *)
(* when the schema rejects it.                                             *)
(***************************************************************************)
\* Field(..., min_items=2, max_items=5) of BatchCompareRequest.comparisons.
MinItems == 2
MaxItems == 5
\* Longest list of comparisons a batch body carries.
MaxPayload == 6

\* A field declared `str = Field(..., min_length=1)` under the validator
\* validate_non_empty_strings: the stripped text, or the ValidationError.
RequiredText(body, k) ==
    IF k \notin DOMAIN body
    THEN PyExc("ValidationError", <<k, "Field required">>)
    ELSE IF body[k].t # "str"
    THEN PyExc("ValidationError", <<k, "Input should be a valid string">>)
    ELSE IF Len(body[k].v) < 1
    THEN PyExc("ValidationError", <<k, "String should have at least 1 character">>)
    ELSE IF Len(Strip(body[k].v)) = 0
    THEN PyExc("ValidationError", <<k, "Campo não pode ser vazio">>)
    ELSE PyStr(Strip(body[k].v))

\* A field declared `Optional[str] = Field(None)`.
OptionalText(body, k) ==
    IF k \notin DOMAIN body THEN PyNone
    ELSE IF body[k].t \notin {"str", "none"}
    THEN PyExc("ValidationError", <<k, "Input should be a valid string">>)
    ELSE body[k]

\* CompareRequest(**body): the validated fields, or the ValidationError.
CompareRequest(body) ==
    LET fields ==
          [k \in {"input", "response_a", "response_b",
                  "model_a_name", "model_b_name", "judge_model"} |->
              IF k \in {"input", "response_a", "response_b"}
              THEN RequiredText(body, k) ELSE OptionalText(body, k)]
    IN IF \E k \in DOMAIN fields : IsExc(fields[k])
       THEN PyExc("ValidationError", <<"CompareRequest">>)
       ELSE fields

\* BatchCompareRequest with the two length constraints left out: only the
\* validator validate_comparisons looks at the length.
BatchCompareRequestUnbounded(body) ==
    IF "comparisons" \notin DOMAIN body
    THEN PyExc("ValidationError", <<"comparisons", "Field required">>)
    ELSE LET items == [i \in 1..Len(body.comparisons) |->
                          CompareRequest(body.comparisons[i])]
         IN IF \E i \in 1..Len(items) : IsExc(items[i])
            THEN PyExc("ValidationError", <<"comparisons", "CompareRequest">>)
            ELSE IF Len(items) = 1
            THEN PyExc("ValidationError",
                       <<"comparisons", "Para uma única comparação, use o endpoint /api/v1/compare/">>)
            ELSE PyList(items)

\* BatchCompareRequest(**body): the validated comparisons, or the
\* ValidationError.  The list schema gives up on a list longer than
\* max_items before it reports any item, validates the items, and only then
\* compares the length with min_items; the validator validate_comparisons
\* runs after it.
BatchCompareRequest(body) ==
    IF "comparisons" \notin DOMAIN body
    THEN PyExc("ValidationError", <<"comparisons", "Field required">>)
    ELSE LET items == [i \in 1..Len(body.comparisons) |->
                          CompareRequest(body.comparisons[i])]
         IN IF Len(items) > MaxItems
            THEN PyExc("ValidationError", <<"comparisons", "List should have at most 5 items">>)
            ELSE IF \E i \in 1..Len(items) : IsExc(items[i])
            THEN PyExc("ValidationError", <<"comparisons", "CompareRequest">>)
            ELSE IF Len(items) < MinItems
            THEN PyExc("ValidationError", <<"comparisons", "List should have at least 2 items">>)
            ELSE IF Len(items) = 1
            THEN PyExc("ValidationError",
                       <<"comparisons", "Para uma única comparação, use o endpoint /api/v1/compare/">>)
            ELSE PyList(items)

\* The fields ComparisonResponse declares with Field(...); execution_time
\* is wall-clock time, every record main returns carries it, and it is left
\* out here as it is there.
ComparisonResponseRequired ==
    {"input", "response_a", "response_b", "better_response", "judge_model_used"}

\* ComparisonResponse(**result): the instance, or the ValidationError.
ComparisonResponse(fields) ==
    IF ComparisonResponseRequired \subseteq DOMAIN fields
    THEN [t |-> "ComparisonResponse", v |-> fields]
    ELSE PyExc("ValidationError", <<"Field required">>)

\* compare_models with every failure of its try block answered 500.
CompareEndpointAllInternal(outcome) ==
    LET built == IF IsExc(outcome) THEN outcome
                 ELSE IF outcome = PyNone
                 THEN PyExc("TypeError", <<"'NoneType' object is not subscriptable">>)
                 ELSE IF "better_response" \notin DOMAIN outcome
                 THEN PyExc("KeyError", <<"'better_response'">>)
                 ELSE ComparisonResponse(outcome)
    IN IF ~IsExc(built) THEN HTTP(200, built)
       ELSE HTTP(500, PyStr(<<"An internal server error occurred:">> \o built.v))

\* compare_models once workflow_main returned or raised `outcome` (router
\* lines 36-49): line 36 reads result['better_response'] before line 37
\* builds the response model, both inside the try block, so what the
\* subscript or the constructor raises meets the except clauses of the
\* handler.
CompareEndpoint(outcome) ==
    LET built == IF IsExc(outcome) THEN outcome
                 ELSE IF outcome = PyNone
                 THEN PyExc("TypeError", <<"'NoneType' object is not subscriptable">>)
                 ELSE IF "better_response" \notin DOMAIN outcome
                 THEN PyExc("KeyError", <<"'better_response'">>)
                 ELSE ComparisonResponse(outcome)
    IN IF ~IsExc(built) THEN HTTP(200, built)
       ELSE IF built.cls = "TimeoutError"
       THEN HTTP(408, PyStr(<<"Comparison timed out">>))
       ELSE IF IsValueError(built)
       THEN HTTP(422, PyStr(<<"Validation error:">> \o built.v))
       ELSE HTTP(500, PyStr(<<"An internal server error occurred:">> \o built.v))

\* The parameters of main in workflow/workflow.py, the function the router
\* imports as workflow_main (router line 6).
MainParameters ==
    {"input", "llm_a", "llm_b", "pre_generated_response_a",
     "pre_generated_response_b", "timeout_seconds"}

\* The keywords compare_models passes to workflow_main, in the order of the
\* call.
MainKeywords ==
    <<"input_question", "response_a", "response_b", "model_a_name", "model_b_name",
      "timeout_seconds">>

\* workflow_main(**keywords) up to the binding of its arguments: the
\* TypeError of the first keyword main does not declare or of its missing
\* required argument, None when the call binds and main is entered.
BindMain(keywords) ==
    IF \E i \in 1..Len(keywords) : keywords[i] \notin MainParameters
    THEN PyExc("TypeError",
               <<"main() got an unexpected keyword argument",
                 keywords[CHOOSE i \in 1..Len(keywords) :
                            /\ keywords[i] \notin MainParameters
                            /\ \A j \in 1..(i - 1) : keywords[j] \in MainParameters]>>)
    ELSE IF "input" \notin Range(keywords)
    THEN PyExc("TypeError", <<"main() missing 1 required positional argument:", "input">>)
    ELSE PyNone

\* ---- the single-comparison endpoint ----
\* Every JSON object over a subset of the fields, each field drawn from
\* its values.
Bodies(values) ==
    UNION {{b \in [keys -> UNION {values[k] : k \in keys}] :
                \A k \in keys : b[k] \in values[k]} :
           keys \in SUBSET DOMAIN values}

CompareBodies ==
    Bodies([input |-> {PyStr(<<"question">>), PyStr(<<>>)},
            response_a |-> {PyStr(<<"story">>), PyStr(<<" ", "story", " ">>),
                            PyStr(<<" ">>)},
            response_b |-> {PyStr(<<"tale">>), PyInt(7)},
            model_a_name |-> {PyStr(<<"model-x">>)},
            judge_model |-> {PyStr(<<"google-gemini-2.5-pro">>), PyNone}])

\* POST /api/v1/compare/: the body is validated; a body the schema admits
\* enters the handler, which calls workflow_main inside its try block.  The
\* keywords it passes do not bind to the parameters of main, so the call
\* raises before main is entered: no judge client is asked for, nothing is
\* awaited, and the handler answers from its `except Exception` clause.
\* (The same import line names batch_judge_processing, which
\* workflow/workflow.py does not define; the handler is taken with that
\* name supplied.)
compare_models_Request ==
    /\ http_out = PyNone
    /\ IF IsExc(CompareRequest(http_in))
       THEN http_out' = HTTP(422, CompareRequest(http_in))
       ELSE /\ IsExc(BindMain(MainKeywords))
            /\ http_out' = CompareEndpoint(BindMain(MainKeywords))
    /\ UNCHANGED <<http_in, vars_factory, vars_wf, vars_reg, vars_fac, vars_parse,
                   vars_cmp, vars_batch, vars_stats>>

InitEndpoint ==
    /\ IdleWorkflow /\ InitFactory
    /\ IdleParse /\ IdleCompare /\ IdleBatch /\ IdleStats
    /\ IdleRegistry /\ IdleCreate
    /\ http_in \in CompareBodies /\ http_out = PyNone

NextEndpoint == compare_models_Request

SpecEndpoint == InitEndpoint /\ [][NextEndpoint]_vars

\* ---- the batch endpoint ----
\* The comparisons a batch body is made of: one the schema admits as it
\* is, one it admits after stripping, one whose response_a is blank.
PayloadItems ==
    {[input |-> PyStr(<<"question">>), response_a |-> PyStr(<<"story">>),
      response_b |-> PyStr(<<"tale">>)],
     [input |-> PyStr(<<"question">>), response_a |-> PyStr(<<"story">>),
      response_b |-> PyStr(<<" ", "story", " ">>),
      model_a_name |-> PyStr(<<"model-x">>)],
     [input |-> PyStr(<<"question">>), response_a |-> PyStr(<<" ">>),
      response_b |-> PyStr(<<"tale">>)]}

\* The bodies of a batch request: every list of up to MaxPayload items, and
\* the object without its 'comparisons' field.
BatchBodies ==
    {[comparisons |-> items] :
        items \in UNION {[1..n -> PayloadItems] : n \in 0..MaxPayload}}
      \cup {[other |-> PyNone]}

\* POST /api/v1/compare/batch: the body is validated; a body the schema
\* admits enters the handler.
compare_models_batch_Request ==
    /\ batch_pc = "idle"
    /\ IF IsExc(BatchCompareRequest(http_in))
       THEN /\ batch_pc' = "rejected"
            /\ batch_out' = HTTP(422, BatchCompareRequest(http_in))
            /\ UNCHANGED <<batch_in, batch_raw, batch_results,
                           cached_models, config_loaded>>
       ELSE \E env \in CreatorOutcomes, pull \in PromptOutcomes :
               BatchCalled(BatchCompareRequest(http_in).v, env, pull)
    /\ UNCHANGED <<vars_http, active_models, vars_wf, vars_reg, vars_fac, vars_parse,
                   vars_cmp, vars_stats>>

InitBatchRequest ==
    /\ IdleWorkflow /\ IdleFactory
    /\ IdleParse /\ IdleCompare /\ IdleBatch /\ IdleStats
    /\ IdleRegistry /\ IdleCreate
    /\ http_in \in BatchBodies /\ http_out = PyNone

NextBatchRequest ==
    \/ compare_models_batch_Request
    \/ /\ \/ batch_judge_processing_Return
          \/ batch_judge_processing_Raise
          \/ compare_models_batch_Timeout
       /\ UNCHANGED vars_http

SpecBatchRequest == InitBatchRequest /\ [][NextBatchRequest]_vars

(***************************************************************************)
(* The registry machine: the read methods of ModelsLoader while the        *)
(* backing file is replaced, corrupted or deleted between calls.           *)
(***************************************************************************)
\* The ids and providers the read methods are asked about.
AskedModels == FileModelIds \cup FallbackModels \cup {"modelo-inexistente"}
AskedProviders == {"anthropic", "mistral", "openrouter", "google"}

\* What a read method answered: its name, its argument, and the value it
\* returned or the exception it raised.
Answer(op, arg, v) == [op |-> op, arg |-> arg, v |-> v]

\* The performance tests (or an operator) replace, corrupt or delete
\* models_config.json; its mtime changes.
models_config_Write ==
    /\ \E file \in Files \ {registry.file} :
         registry' = [registry EXCEPT !.file = file, !.fresh = FALSE]
    /\ reg_out' = PyNone
    /\ UNCHANGED <<vars_wf, vars_factory, vars_fac, vars_parse, vars_cmp,
                   vars_batch, vars_stats>>

get_config_Call ==
    /\ \E force_reload \in BOOLEAN :
         /\ registry' = GetConfig(registry, force_reload)
         /\ reg_out' = Answer("get_config", PyBool(force_reload),
                              PyDict(GetConfig(registry, force_reload).cache))
    /\ UNCHANGED <<vars_wf, vars_factory, vars_fac, vars_parse, vars_cmp,
                   vars_batch, vars_stats>>

get_active_models_Call ==
    /\ registry' = GetConfig(registry, FALSE)
    /\ reg_out' = Answer("get_active_models", PyNone,
                         PyList(GetActiveModels(registry)))
    /\ UNCHANGED <<vars_wf, vars_factory, vars_fac, vars_parse, vars_cmp,
                   vars_batch, vars_stats>>

get_default_model_Call ==
    /\ registry' = GetConfig(registry, FALSE)
    /\ reg_out' = Answer("get_default_model", PyNone,
                         PyStr(<<GetDefaultModel(registry)>>))
    /\ UNCHANGED <<vars_wf, vars_factory, vars_fac, vars_parse, vars_cmp,
                   vars_batch, vars_stats>>

get_model_config_Call ==
    /\ \E model_id \in AskedModels :
         reg_out' = Answer("get_model_config", model_id,
                           GetModelConfig(registry, model_id))
    /\ registry' = GetConfig(registry, FALSE)
    /\ UNCHANGED <<vars_wf, vars_factory, vars_fac, vars_parse, vars_cmp,
                   vars_batch, vars_stats>>

get_provider_config_Call ==
    /\ \E provider_id \in AskedProviders :
         reg_out' = Answer("get_provider_config", provider_id,
                           GetProviderConfig(registry, provider_id))
    /\ registry' = GetConfig(registry, FALSE)
    /\ UNCHANGED <<vars_wf, vars_factory, vars_fac, vars_parse, vars_cmp,
                   vars_batch, vars_stats>>

loader_get_available_models_Call ==
    /\ \E status_filter \in {PyNone, PyStr(<<"active">>), PyStr(<<"inactive">>),
                            PyStr(<<"deprecated">>)} :
         reg_out' = Answer("get_available_models", status_filter,
                           PyList(LoaderGetAvailableModels(registry, status_filter)))
    /\ registry' = GetConfig(registry, FALSE)
    /\ UNCHANGED <<vars_wf, vars_factory, vars_fac, vars_parse, vars_cmp,
                   vars_batch, vars_stats>>

get_models_by_provider_Call ==
    /\ \E provider_id \in AskedProviders :
         reg_out' = Answer("get_models_by_provider", provider_id,
                           PyList(GetModelsByProvider(registry, provider_id)))
    /\ registry' = GetConfig(registry, FALSE)
    /\ UNCHANGED <<vars_wf, vars_factory, vars_fac, vars_parse, vars_cmp,
                   vars_batch, vars_stats>>

\* get_fastest_models() with its default limit, and with a limit of one.
get_fastest_models_Call ==
    /\ \E limit \in {1, 5} :
         reg_out' = Answer("get_fastest_models", PyInt(limit),
                           PyList(GetFastestModels(registry, limit)))
    /\ registry' = GetConfig(registry, FALSE)
    /\ UNCHANGED <<vars_wf, vars_factory, vars_fac, vars_parse, vars_cmp,
                   vars_batch, vars_stats>>

is_model_available_Call ==
    /\ \E model_id \in AskedModels :
         reg_out' = Answer("is_model_available", model_id,
                           IsModelAvailable(registry, model_id))
    /\ registry' = GetConfig(registry, FALSE)
    /\ UNCHANGED <<vars_wf, vars_factory, vars_fac, vars_parse, vars_cmp,
                   vars_batch, vars_stats>>

get_config_metadata_Call ==
    /\ registry' = GetConfig(registry, FALSE)
    /\ reg_out' = Answer("get_config_metadata", PyNone,
                         PyDict(GetConfigMetadata(registry)))
    /\ UNCHANGED <<vars_wf, vars_factory, vars_fac, vars_parse, vars_cmp,
                   vars_batch, vars_stats>>

loader_health_check_Call ==
    /\ registry' = GetConfig(registry, FALSE)
    /\ reg_out' = Answer("health_check", PyNone, PyDict(HealthCheck(registry)))
    /\ UNCHANGED <<vars_wf, vars_factory, vars_fac, vars_parse, vars_cmp,
                   vars_batch, vars_stats>>

\* ModelsLoader.refresh_config: get_config(force_reload=True) handles the
\* failure of the load itself, so nothing reaches the except clause of
\* refresh_config and the method returns True.
LoaderRefreshConfig(r) == <<GetConfig(r, TRUE), PyBool(TRUE)>>

loader_refresh_config_Call ==
    /\ registry' = LoaderRefreshConfig(registry)[1]
    /\ reg_out' = Answer("refresh_config", PyNone, LoaderRefreshConfig(registry)[2])
    /\ UNCHANGED <<vars_wf, vars_factory, vars_fac, vars_parse, vars_cmp,
                   vars_batch, vars_stats>>

\* ModelsLoader after construction: nothing cached, whatever the file is.
InitRegistry ==
    /\ IdleWorkflow /\ IdleFactory /\ IdleCreate /\ IdleHttp
    /\ IdleParse /\ IdleCompare /\ IdleBatch /\ IdleStats
    /\ \E file \in Files : registry = Registry(file, PyNone, FALSE)
    /\ reg_out = PyNone

NextRegistry ==
    /\ \/ models_config_Write
       \/ get_config_Call
       \/ get_active_models_Call
       \/ get_default_model_Call
       \/ get_model_config_Call
       \/ get_provider_config_Call
       \/ loader_get_available_models_Call
       \/ get_models_by_provider_Call
       \/ get_fastest_models_Call
       \/ is_model_available_Call
       \/ get_config_metadata_Call
       \/ loader_health_check_Call
       \/ loader_refresh_config_Call
    /\ UNCHANGED vars_http

SpecRegistry == InitRegistry /\ [][NextRegistry]_vars

(***************************************************************************)
(* The factory machine: LLMFactory (agents/llm_factory.py) on top of the   *)
(* registry, with the creator functions of agents/llms.py.  The factory    *)
(* is the record [cached, loaded, reg]: the keys of _cached_models,        *)
(* _config_loaded, and the registry it reads.  A creator is determined by  *)
(* its key: the closure of _create_model_factory_function for an id of     *)
(* the file, a get_llm_* function for a fallback id, the registered        *)
(* function for a registered id.                                           *)
(***************************************************************************)
Factory(cached, loaded, reg) == [cached |-> cached, loaded |-> loaded, reg |-> reg]

\* The prefixes tested by _detect_provider_from_model_name that a model
\* name starts with.
NamePrefixes(model_name) ==
    CASE model_name \in {"claude-sonnet-4-0", "claude-4-sonnet"} -> {"claude-"}
      [] model_name = "anthropic/claude-sonnet-4"   -> {"anthropic/"}
      [] model_name = "google/gemini-2.5-pro"       -> {"google/"}
      [] model_name = "mistral-large-latest"        -> {"mistral"}
      [] model_name = "meta-llama/llama-4-maverick" -> {"meta-llama/"}
      [] model_name = "llama-4-maverick"            -> {"llama"}
      [] OTHER                                      -> {}

\* _detect_provider_from_model_name.
DetectProviderFromModelName(model_name) ==
    LET startswith(prefix) == prefix \in NamePrefixes(model_name)
    IN IF startswith("claude-") \/ startswith("anthropic/") THEN "anthropic"
       ELSE IF startswith("google/") \/ startswith("gemini") THEN "google"
       ELSE IF startswith("openai/") \/ startswith("gpt-") THEN "openai"
       ELSE IF startswith("mistral") THEN "mistral"
       ELSE IF startswith("x-ai/") \/ startswith("grok") THEN "xai"
       ELSE IF startswith("deepseek/") THEN "deepseek"
       ELSE IF startswith("qwen/") THEN "qwen"
       ELSE IF startswith("meta-llama/") \/ startswith("llama") THEN "meta"
       ELSE "openrouter"

\* _create_openrouter_fallback: the client (None stands for it), or the
\* ValueError for the missing gateway credential.
CreateOpenrouterFallback(env) ==
    IF "OPENROUTER_API_KEY" \notin env
    THEN PyExc("ValueError", <<"OPENROUTER_API_KEY não encontrada">>)
    ELSE PyNone

\* _create_from_json_config: the two direct-API families use their own
\* credential and fall back to the gateway without it.
CreateFromJsonConfig(model_name, env) ==
    IF model_name \in {"claude-sonnet-4-0", "claude-3-5-haiku-latest"}
    THEN IF "ANTHROPIC_API_KEY" \notin env THEN CreateOpenrouterFallback(env)
         ELSE PyNone
    ELSE IF model_name \in {"mistral-large-latest", "mistral-medium-latest",
                            "mistral-small-latest"}
    THEN IF "MISTRAL_API_KEY" \notin env THEN CreateOpenrouterFallback(env)
         ELSE PyNone
    ELSE CreateOpenrouterFallback(env)

\* _create_from_fallback: ChatOpenAI(api_key=config.OPENROUTER_API, ...);
\* without a key the client library refuses to build the client.
CreateFromFallback(model_name, env) ==
    IF "OPENROUTER_API_KEY" \notin env
    THEN PyExc("OpenAIError", <<"api_key must be set">>)
    ELSE PyNone

\* llms.create_llm: the descriptor of the registry when there is one with
\* its provider, the legacy parameters otherwise; the provider detected
\* from the name is only logged.
LlmsCreateLLM(model_name, r, env) ==
    LET model_config == GetModelConfig(r, model_name)
        provider_config ==
            IF model_config # PyNone
            THEN GetProviderConfig(r, model_config.v.provider)
            ELSE PyNone
    IN IF IsExc(model_config) THEN model_config
       ELSE IF IsExc(provider_config) THEN provider_config
       ELSE IF model_config # PyNone /\ provider_config # PyNone
       THEN CreateFromJsonConfig(model_name, env)
       ELSE CreateFromFallback(model_name, env)

\* create_model, the closure cached for a model of the file: a provider of
\* api_type 'anthropic' needs its own credential, every other provider goes
\* through llms.create_llm.
CreateModel(model_id, provider, r, env) ==
    LET provider_config == GetProviderConfig(r, provider)
    IN IF IsExc(provider_config) THEN provider_config
       ELSE IF provider_config = PyNone
       THEN PyExc("ValueError", <<"Provedor", provider, "não configurado">>)
       ELSE IF provider_config.v.api_type = "anthropic"
       THEN IF provider_config.v.requires_key \notin env
            THEN PyExc("ValueError",
                       <<"API key não encontrada:", provider_config.v.requires_key>>)
            ELSE PyNone
       ELSE LlmsCreateLLM(model_id, r, env)

\* The get_llm_* functions _load_fallback_models caches.
FallbackCreator(model_name, r, env) ==
    IF model_name = "llama-4-maverick"
    THEN LlmsCreateLLM("meta-llama/llama-4-maverick", r, env)
    ELSE IF model_name = "claude-4-sonnet"
    THEN IF "ANTHROPIC_API_KEY" \in env THEN PyNone
         ELSE LlmsCreateLLM("anthropic/claude-sonnet-4", r, env)
    ELSE LlmsCreateLLM("google/gemini-2.5-pro", r, env)

\* The function cached under model_name, called.  A registered function is
\* the caller's own; it builds its client.
Creator(model_name, r, env) ==
    IF model_name \in FileModelIds
    THEN CreateModel(model_name, ProviderOf(model_name), r, env)
    ELSE IF model_name \in FallbackModels
    THEN FallbackCreator(model_name, r, env)
    ELSE PyNone

\* Whether the function cached under model_name asks the registry for
\* anything when it is called: create_model and llms.create_llm do,
\* get_llm_anthropic_claude_4_sonnet with its own credential builds its
\* client directly, a registered function is the caller's own.
CreatorReadsRegistry(model_name, env) ==
    IF model_name \in FileModelIds THEN TRUE
    ELSE IF model_name \in FallbackModels
    THEN ~(model_name = "claude-4-sonnet" /\ "ANTHROPIC_API_KEY" \in env)
    ELSE FALSE

\* The loop of _load_models_from_config (for model_id in active_models)
\* from position i on: each active model whose descriptor the registry
\* returns is cached; a descriptor that cannot be built raises, and the
\* handler adds the fallback functions to what was cached so far.
RECURSIVE LoadActiveModels(_, _, _)
LoadActiveModels(i, cached, r) ==
    IF i > Len(GetActiveModels(r)) THEN cached
    ELSE IF IsExc(GetModelConfig(r, GetActiveModels(r)[i]))
    THEN PutAll(cached, FallbackOrder)
    ELSE LoadActiveModels(i + 1, Put(cached, GetActiveModels(r)[i]), r)

\* _load_models_from_config on the registry r.
LoadModelsFromRegistry(cached, r) ==
    IF GetActiveModels(r) = <<>> THEN PutAll(cached, FallbackOrder)
    ELSE LoadActiveModels(1, cached, r)

\* _ensure_config_loaded.
EnsureLoaded(f) ==
    IF f.loaded THEN f
    ELSE Factory(LoadModelsFromRegistry(f.cached, f.reg), TRUE, GetConfig(f.reg, FALSE))

\* LLMFactory.create_llm up to its final validation.
AfterLookup(f, model_name) ==
    The({IF model_name \notin Range(f1.cached)
         THEN EnsureLoaded(Factory(<<>>, FALSE, f1.reg))
         ELSE f1 : f1 \in {EnsureLoaded(f)}})

\* LLMFactory.create_llm: <<the factory it leaves behind, the client (None
\* stands for it) or the exception raised>>.
FactoryCreateLLM(f, model_name, env) ==
    The({IF model_name \notin Range(f1.cached)
         THEN <<f1, PyExc("ValueError", <<"Modelo", model_name, "não encontrado">>)>>
         ELSE <<[f1 EXCEPT !.reg = IF CreatorReadsRegistry(model_name, env)
                                   THEN GetConfig(f1.reg, FALSE) ELSE @],
                Creator(model_name, f1.reg, env)>> :
         f1 \in {AfterLookup(f, model_name)}})

\* LLMFactory.register_model.
RegisterModel(f, model_name) ==
    [EnsureLoaded(f) EXCEPT !.cached = Put(@, model_name)]

\* LLMFactory.get_available_models: <<the factory it leaves behind, the
\* names it lists>>.
GetAvailableModels(f) ==
    The({<<f1, PyList(f1.cached)>> : f1 \in {EnsureLoaded(f)}})

\* LLMFactory.is_model_supported: <<the factory it leaves behind, the
\* answer or the exception of models_loader.is_model_available>>.
IsModelSupported(f, model_name) ==
    The({IF model_name \in Range(f1.cached) THEN <<f1, PyBool(TRUE)>>
         ELSE <<[f1 EXCEPT !.reg = GetConfig(f1.reg, FALSE)],
                IsModelAvailable(f1.reg, model_name)>> :
         f1 \in {EnsureLoaded(f)}})

\* LLMFactory.refresh_config: the cache is cleared, the registry reloads
\* its file, the factory reloads from the registry.
RefreshConfig(f) ==
    The({EnsureLoaded(Factory(<<>>, FALSE, r)) : r \in {GetConfig(f.reg, TRUE)}})

\* LLMFactory.get_default_model: <<the factory it leaves behind, the
\* default model of the registry>>.  models_loader.get_default_model does
\* not raise, so the 'llama-4-maverick' of the except clause is not
\* returned from there.
FactoryGetDefaultModel(f) ==
    The({<<[f EXCEPT !.reg = reg], PyStr(<<reg.cache.default_model>>)>> :
         reg \in {GetConfig(f.reg, FALSE)}})

\* LLMFactory.get_fastest_models.
FactoryGetFastestModels(f, limit) ==
    The({<<[f EXCEPT !.reg = reg], PyList(GetFastestModels(reg, limit))>> :
         reg \in {GetConfig(f.reg, FALSE)}})

\* LLMFactory.get_models_by_provider.
FactoryGetModelsByProvider(f, provider) ==
    The({<<[f EXCEPT !.reg = reg], PyList(GetModelsByProvider(reg, provider))>> :
         reg \in {GetConfig(f.reg, FALSE)}})

\* LLMFactory.validate_json_config: the report of the registry is neither
\* an error report nor without an active model.
ValidateJsonConfig(f) ==
    The({The({<<[f EXCEPT !.reg = reg],
                PyBool(/\ health.status \in {"healthy", "degraded"}
                       /\ (IF "active_models" \in DOMAIN health
                           THEN health.active_models ELSE 0) > 0)>> :
              health \in {HealthCheck(reg)}}) :
         reg \in {GetConfig(f.reg, FALSE)}})

\* LLMFactory.health_check: the factory is loaded, the registry reports,
\* and the first cached model is created as a test, whatever it raises
\* being swallowed.  <<the factory it leaves behind, the report>>.
FactoryHealthCheck(f, env) ==
    The({The({The({<<done[1],
                     PyDict([factory_status |->
                                IF Len(f2.cached) > 0 /\ f2.loaded
                                THEN "healthy" ELSE "degraded",
                             cached_models_count |-> Len(f2.cached),
                             config_loaded |-> f2.loaded,
                             test_model_creation |-> done[2],
                             models_loader_health |-> loader_health,
                             available_models |-> done[1].cached])>> :
                   loader_health \in {HealthCheck(f2.reg)},
                   done \in {IF f2.cached = <<>> THEN <<f2, FALSE>>
                             ELSE The({<<created[1], ~IsExc(created[2])>> :
                                       created \in
                                         {FactoryCreateLLM(f2, f2.cached[1], env)}})}}) :
              f2 \in {[f1 EXCEPT !.reg = GetConfig(f1.reg, FALSE)]}}) :
         f1 \in {EnsureLoaded(f)}})

\* ---- the machine ----
Credentials == {"ANTHROPIC_API_KEY", "MISTRAL_API_KEY", "OPENROUTER_API_KEY"}

\* The environments of the factory machine: none of the credentials, all of
\* them, and each alone, so that every model meets every combination of
\* its provider's credential and the gateway's.
Environments ==
    {{}, {"ANTHROPIC_API_KEY"}, {"MISTRAL_API_KEY"}, {"OPENROUTER_API_KEY"}, Credentials}

\* The names create_llm is asked for, and the names register_model adds.
CustomModels == {"my-custom"}
RequestedModels == AskedModels \cup CustomModels

\* The files the factory machine puts in place: no file, and every file
\* that declares both providers and names the first model as its default.
FactoryFiles ==
    {file \in Files :
        \/ file.t = "missing"
        \/ /\ file.t = "json"
           /\ "metadata" \in DOMAIN file.v
           /\ file.v.default_model = "claude-sonnet-4-0"
           /\ DOMAIN file.v.providers = {"anthropic", "mistral"}}

TheFactory == Factory(cached_models, config_loaded, registry)

SetFactory(f) ==
    /\ cached_models' = f.cached
    /\ config_loaded' = f.loaded
    /\ registry' = f.reg

Operation(op, arg) == [op |-> op, arg |-> arg]

factory_config_Write ==
    /\ \E file \in FactoryFiles \ {registry.file} :
         registry' = [registry EXCEPT !.file = file, !.fresh = FALSE]
    /\ fac_in' = PyNone /\ fac_out' = PyNone
    /\ UNCHANGED <<cached_models, config_loaded, active_models, fac_env, reg_out,
                   vars_wf, vars_parse, vars_cmp, vars_batch, vars_stats>>

create_llm_Call ==
    /\ \E model_name \in RequestedModels :
         \E done \in {FactoryCreateLLM(TheFactory, model_name, fac_env)} :
            /\ SetFactory(done[1])
            /\ fac_in' = Operation("create_llm", model_name)
            /\ fac_out' = done[2]
    /\ UNCHANGED <<active_models, fac_env, reg_out,
                   vars_wf, vars_parse, vars_cmp, vars_batch, vars_stats>>

register_model_Call ==
    /\ \E model_name \in CustomModels :
         /\ \E f \in {RegisterModel(TheFactory, model_name)} : SetFactory(f)
         /\ fac_in' = Operation("register_model", model_name)
    /\ fac_out' = PyNone
    /\ UNCHANGED <<active_models, fac_env, reg_out,
                   vars_wf, vars_parse, vars_cmp, vars_batch, vars_stats>>

get_available_models_Call ==
    /\ \E done \in {GetAvailableModels(TheFactory)} :
         /\ SetFactory(done[1])
         /\ fac_out' = done[2]
    /\ fac_in' = Operation("get_available_models", PyNone)
    /\ UNCHANGED <<active_models, fac_env, reg_out,
                   vars_wf, vars_parse, vars_cmp, vars_batch, vars_stats>>

is_model_supported_Call ==
    /\ \E model_name \in RequestedModels :
         \E done \in {IsModelSupported(TheFactory, model_name)} :
            /\ SetFactory(done[1])
            /\ fac_in' = Operation("is_model_supported", model_name)
            /\ fac_out' = done[2]
    /\ UNCHANGED <<active_models, fac_env, reg_out,
                   vars_wf, vars_parse, vars_cmp, vars_batch, vars_stats>>

refresh_config_Call ==
    /\ \E f \in {RefreshConfig(TheFactory)} : SetFactory(f)
    /\ fac_in' = Operation("refresh_config", PyNone)
    /\ fac_out' = PyBool(TRUE)
    /\ UNCHANGED <<active_models, fac_env, reg_out,
                   vars_wf, vars_parse, vars_cmp, vars_batch, vars_stats>>

get_default_model_factory_Call ==
    /\ \E done \in {FactoryGetDefaultModel(TheFactory)} :
         /\ SetFactory(done[1])
         /\ fac_out' = done[2]
    /\ fac_in' = Operation("get_default_model", PyNone)
    /\ UNCHANGED <<active_models, fac_env, reg_out,
                   vars_wf, vars_parse, vars_cmp, vars_batch, vars_stats>>

get_fastest_models_factory_Call ==
    /\ \E limit \in {1, 5} :
         \E done \in {FactoryGetFastestModels(TheFactory, limit)} :
            /\ SetFactory(done[1])
            /\ fac_in' = Operation("get_fastest_models", limit)
            /\ fac_out' = done[2]
    /\ UNCHANGED <<active_models, fac_env, reg_out,
                   vars_wf, vars_parse, vars_cmp, vars_batch, vars_stats>>

get_models_by_provider_factory_Call ==
    /\ \E provider \in AskedProviders :
         \E done \in {FactoryGetModelsByProvider(TheFactory, provider)} :
            /\ SetFactory(done[1])
            /\ fac_in' = Operation("get_models_by_provider", provider)
            /\ fac_out' = done[2]
    /\ UNCHANGED <<active_models, fac_env, reg_out,
                   vars_wf, vars_parse, vars_cmp, vars_batch, vars_stats>>

validate_json_config_Call ==
    /\ \E done \in {ValidateJsonConfig(TheFactory)} :
         /\ SetFactory(done[1])
         /\ fac_out' = done[2]
    /\ fac_in' = Operation("validate_json_config", PyNone)
    /\ UNCHANGED <<active_models, fac_env, reg_out,
                   vars_wf, vars_parse, vars_cmp, vars_batch, vars_stats>>

health_check_Call ==
    /\ \E done \in {FactoryHealthCheck(TheFactory, fac_env)} :
         /\ SetFactory(done[1])
         /\ fac_out' = done[2]
    /\ fac_in' = Operation("health_check", PyNone)
    /\ UNCHANGED <<active_models, fac_env, reg_out,
                   vars_wf, vars_parse, vars_cmp, vars_batch, vars_stats>>

\* The process after import: nothing cached anywhere, the credentials of
\* the environment fixed.
InitFactoryMachine ==
    /\ IdleWorkflow /\ IdleFactory /\ IdleHttp
    /\ IdleParse /\ IdleCompare /\ IdleBatch /\ IdleStats
    /\ \E file \in FactoryFiles : registry = Registry(file, PyNone, FALSE)
    /\ reg_out = PyNone
    /\ fac_env \in Environments
    /\ fac_in = PyNone /\ fac_out = PyNone

NextFactory ==
    /\ \/ factory_config_Write
       \/ create_llm_Call
       \/ register_model_Call
       \/ get_available_models_Call
       \/ is_model_supported_Call
       \/ refresh_config_Call
       \/ get_default_model_factory_Call
       \/ get_fastest_models_factory_Call
       \/ get_models_by_provider_factory_Call
       \/ validate_json_config_Call
       \/ health_check_Call
    /\ UNCHANGED vars_http

SpecFactory == InitFactoryMachine /\ [][NextFactory]_vars

(***************************************************************************)
(* Properties of the registry and of the factory                           *)
(***************************************************************************)
\* The ValueError LLMFactory.create_llm raises for a name it does not hold.
IsUnsupportedModelError(x) ==
    x.t = "exc" /\ x.cls = "ValueError" /\ x.v[1] = "Modelo"

\* The last factory operation was create_llm(model_name).
CreatedFor(model_name) ==
    /\ "op" \in DOMAIN fac_in
    /\ fac_in.op = "create_llm" /\ fac_in.arg = model_name

\* The registry has an entry for the id; the name starts with a prefix the
\* heuristic of llms.py knows.
RegistryResolves(model_name) ==
    model_name \in DOMAIN GetConfig(registry, FALSE).cache.models
HeuristicResolves(model_name) ==
    DetectProviderFromModelName(model_name) # "openrouter"

\* C16, first half: creating a client for an id of the registry's current
\* active set never fails with the unsupported-model error.
C16_ActiveIdSupported ==
    \A model_name \in RequestedModels :
        CreatedFor(model_name) /\ model_name \in Range(GetActiveModels(registry))
            => ~IsUnsupportedModelError(fac_out)

\* C16, second half: an id that neither the registry nor the name-prefix
\* heuristic resolves always fails with the unsupported-model error.
C16_UnresolvedIdUnsupported ==
    \A model_name \in RequestedModels :
        /\ CreatedFor(model_name)
        /\ ~RegistryResolves(model_name) /\ ~HeuristicResolves(model_name)
        => IsUnsupportedModelError(fac_out)

\* C16: after any sequence of factory operations (create_llm,
\* register_model, refresh_config) and registry reloads, creating a client
\* for a model id in the registry's current active set never fails with the
\* unsupported-model error, and creating a client for an id that neither
\* the registry nor the name-prefix heuristic resolves always fails with it.
C16_ModelResolution == C16_ActiveIdSupported /\ C16_UnresolvedIdUnsupported

\* A read method of the registry was called and raised.
ReadRaised ==
    /\ "op" \in DOMAIN reg_out
    /\ reg_out.op \in {"get_config", "get_active_models", "get_default_model",
                       "get_model_config", "get_provider_config"}
    /\ reg_out.v.t = "exc"

\* The registry serves the built-in fallback configuration.
ServesFallback == registry.cache = GenerateFallbackConfig

\* C17: the read methods of the registry (get_config, get_active_models,
\* get_default_model, get_model_config, get_provider_config) never raise,
\* whatever the state of the backing file; and in the fallback
\* configuration they serve after a failed first load the default model
\* exists and the descriptor of every fallback model can be returned.
C17_ReadsNeverRaise ==
    /\ ~ReadRaised
    /\ ServesFallback =>
          /\ GetDefaultModel(registry) \in DOMAIN registry.cache.models
          /\ \A model_id \in DOMAIN registry.cache.models :
                 GetModelConfig(registry, model_id).t = "dict"

\* C18: every configuration the registry accepts from the backing file has
\* a non-empty model set, a default model that is in the model set, and,
\* for each model, a provider declared in the providers section; a file
\* that violates one of these never becomes the cached configuration.
C18_AcceptedConfigurationSound ==
    registry.cache # PyNone =>
        /\ DOMAIN registry.cache.models # {}
        /\ registry.cache.default_model \in DOMAIN registry.cache.models
        /\ \A model_id \in DOMAIN registry.cache.models :
               registry.cache.models[model_id].provider
                   \in DOMAIN registry.cache.providers

\* refresh_config of the registry was the last call made.
Refreshed == "op" \in DOMAIN reg_out /\ reg_out.op = "refresh_config"

\* C24: refresh_config returns True only when the configuration was
\* actually reloaded from the backing source; when the reload fails (file
\* missing, malformed or invalid) it returns False.
C24_RefreshReportsReload ==
    Refreshed =>
        reg_out.v = PyBool(~IsExc(LoadConfigFromFile(registry.file)))

\* A reload was asked for, explicitly (force_reload, refresh_config) or by
\* the file's changed modification time, and it fails.
ReloadFails(r) == ~r.fresh /\ IsExc(LoadConfigFromFile(r.file))

\* C26: the cached configuration is replaced only by a fully loaded and
\* validated configuration: when the cache changes, it becomes the validated
\* content of the file (or, from no cache at all, the generated fallback);
\* a reload that fails leaves the cached configuration as it was; and what
\* a reader is given passes the validation as a whole.
C26_CacheSwappedWhole ==
    [][/\ registry'.cache # registry.cache =>
              \/ /\ ~IsExc(LoadConfigFromFile(registry.file))
                 /\ registry'.cache = LoadConfigFromFile(registry.file)
              \/ /\ registry.cache = PyNone
                 /\ registry'.cache = GenerateFallbackConfig
       /\ (registry.cache # PyNone /\ IsExc(LoadConfigFromFile(registry.file))) =>
              registry'.cache = registry.cache
       /\ registry'.cache # PyNone =>
              ValidateConfigStructure(registry'.cache) = PyNone
       /\ ("op" \in DOMAIN reg_out' /\ reg_out'.op = "get_config") =>
              reg_out'.v = PyDict(registry'.cache)]_vars

\* A configuration loaded from the file is still cached after a reload,
\* forced or lazy, of a file that no longer loads.
C26_Witness ==
    /\ "op" \in DOMAIN reg_out /\ reg_out.op \in {"refresh_config", "get_active_models"}
    /\ ReloadFails(registry)
    /\ registry.file.t \in {"json", "malformed"}
    /\ registry.cache \notin {PyNone, GenerateFallbackConfig}

\* C29: a model added with register_model stays creatable through
\* create_llm across later create_llm, is_model_supported and
\* get_available_models calls, including create_llm for names the factory
\* does not know, until refresh_config is called: no such call removes a
\* registered name from the factory.
C29_RegisteredModelStays ==
    [][\A model_name \in CustomModels :
          (/\ model_name \in Range(cached_models)
           /\ "op" \in DOMAIN fac_in'
           /\ fac_in'.op \in {"create_llm", "is_model_supported",
                               "get_available_models"})
              => model_name \in Range(cached_models')]_vars

\* The factory holds a creator for model_name, a model of a direct-API
\* provider, and ran it without that provider's credential but with the
\* gateway's.
CreatedThroughGateway(model_name) ==
    /\ CreatedFor(model_name) /\ model_name \in Range(cached_models)
    /\ KeyOf(ProviderOf(model_name)) \notin fac_env
    /\ "OPENROUTER_API_KEY" \in fac_env

\* C19: for a model of a direct-API provider (Anthropic or Mistral family)
\* whose credential is absent while the gateway credential is present,
\* client creation through the factory does not fail: the model is routed
\* through the gateway.
C19_GatewayFallback ==
    \A model_name \in FileModelIds :
        CreatedThroughGateway(model_name) => fac_out.t # "exc"

(***************************************************************************)
(* Properties of the graph workflow (workflow/workflow.py)                 *)
(***************************************************************************)
\* The answer is one of the sentinels an llm node returns on failure.
IsSentinel(response) ==
    /\ response.t = "str" /\ Len(response.v) > 0
    /\ response.v[1] \in {"MODELO_ERROR:", "LLM_A_ERROR:", "LLM_B_ERROR:"}

\* The answer is valid: a text its side produced without error, whatever
\* its words.
IsValidAnswer(response) == response.t = "str" /\ ~IsSentinel(response)

BothAnswered == node_pc["llm_1"] = "done" /\ node_pc["llm_2"] = "done"

\* main returned what the graph produced (not the record of an error handler).
ReturnedGraphState ==
    /\ main_pc = "done"
    /\ result.better_llm.v[1] \notin {"TIMEOUT_ERROR", "WORKFLOW_ERROR", "CRITICAL_ERROR",
                                       "RESPONSE_VALIDATION_ERROR"}

NoJudge == calls.judge_created = 0 /\ calls.judge_invoked = 0

WinsByWO(model, loser) ==
    PyStr(<<model, IF loser = "a" THEN "(vitória por WO - A falhou)"
                   ELSE "(vitória por WO - B falhou)">>)

\* C1: when exactly one side's answer is an error sentinel and the other
\* side's answer is valid, the judge model is neither created nor invoked,
\* the judge node's verdict names the other side's model as winner by WO,
\* and that is the verdict main returns.
C1_WalkoverForOtherSide ==
    /\ (BothAnswered /\ IsSentinel(state.response_a) /\ IsValidAnswer(state.response_b))
         => /\ NoJudge
            /\ node_pc["judge"] = "done"
                 => state.better_llm = WinsByWO(request.llm_b, "a")
            /\ ReturnedGraphState
                 => result.better_llm = WinsByWO(request.llm_b, "a")
    /\ (BothAnswered /\ IsSentinel(state.response_b) /\ IsValidAnswer(state.response_a))
         => /\ NoJudge
            /\ node_pc["judge"] = "done"
                 => state.better_llm = WinsByWO(request.llm_a, "b")
            /\ ReturnedGraphState
                 => result.better_llm = WinsByWO(request.llm_a, "b")

TechnicalTie == PyStr(<<"EMPATE_TÉCNICO", "- Ambos modelos falharam">>)

\* C2: when both sides' answers are error sentinels, the judge is never
\* created or invoked and the verdict is the technical tie, which differs
\* from the tie the judge path issues ('Empate').
C2_TechnicalTie ==
    (BothAnswered /\ IsSentinel(state.response_a) /\ IsSentinel(state.response_b))
        => /\ NoJudge
           /\ node_pc["judge"] = "done" => state.better_llm = TechnicalTie
           /\ ReturnedGraphState => result.better_llm = TechnicalTie
           /\ TechnicalTie # JudgeVerdict(PyDict([Preference |-> PyInt(3)]), request)
           /\ ReturnedGraphState => result.better_llm # PyStr(<<"Empate">>)

C2_Witness ==
    /\ ReturnedGraphState
    /\ IsSentinel(state.response_a) /\ IsSentinel(state.response_b)
    /\ result.better_llm = TechnicalTie

BothSupplied ==
    /\ request # PyNone
    /\ request.pre_generated_response_a.t = "str"
    /\ Len(request.pre_generated_response_a.v) > 0
    /\ request.pre_generated_response_b.t = "str"
    /\ Len(request.pre_generated_response_b.v) > 0

\* C3: in a run with both answers supplied (present and non-empty) no answer
\* node creates a model client or invokes a generation chain, the answers the
\* judge node reads are the supplied texts, and so are the answers in the
\* state main returns; the only model client of the run is the judge's, made
\* at most once, and the only chain invoked is the one built on it.
C3_SuppliedAnswersSkipGeneration ==
    BothSupplied
        => /\ calls.llm_created = 0 /\ calls.llm_invoked = 0
           /\ calls.judge_invoked <= calls.judge_created /\ calls.judge_created <= 1
           /\ calls.judge_created = 1 => node_pc["judge"] # "idle"
           /\ node_pc["llm_1"] # "awaiting" /\ node_pc["llm_2"] # "awaiting"
           /\ node_pc["llm_1"] = "done"
                => state.response_a = request.pre_generated_response_a
           /\ node_pc["llm_2"] = "done"
                => state.response_b = request.pre_generated_response_b
           /\ ReturnedGraphState
                => /\ result.response_a = request.pre_generated_response_a
                   /\ result.response_b = request.pre_generated_response_b

C3_Witness ==
    /\ BothSupplied
    /\ ReturnedGraphState
    /\ calls.judge_invoked = 1 /\ calls.llm_invoked = 0
    /\ result.better_llm = PyStr(<<request.llm_a>>)

TimeoutSentinel == PyStr(<<"WORKFLOW_TIMEOUT_ERROR">>)

\* C4: graph construction, the answer nodes and the judge run under one
\* deadline.  When main returns after the time of the deadline has passed,
\* in whichever phase it passed, the verdict is the timeout verdict and both
\* answer fields are the timeout sentinel, whatever the nodes had produced;
\* when main returns before it the verdict is not the timeout verdict.
C4_OneDeadline ==
    main_pc = "done"
        => /\ deadline \in {"expired", "overrun"}
                => /\ result.better_llm.v[1] = "TIMEOUT_ERROR"
                   /\ result.response_a = TimeoutSentinel
                   /\ result.response_b = TimeoutSentinel
           /\ deadline = "exited" => result.better_llm.v[1] # "TIMEOUT_ERROR"

\* The answer an llm node wrote for its side.
AnswerOf(n) == IF n = "llm_1" THEN state.response_a ELSE state.response_b

\* The answer is the model-error sentinel.
IsModelError(response) ==
    /\ response.t = "str" /\ Len(response.v) > 0
    /\ response.v[1] = "MODELO_ERROR:"

\* The node had to create a client and the factory does not know its model.
Unsupported(n) == ~UsePreGenerated(PreOf(n)) /\ ModelOf(n) \notin Range(cached_models)

\* The judge node has been entered in the current run.
JudgeEntered == main_pc \in {"graph", "done", "raised"} /\ node_pc["judge"] # "idle"

\* C27: in every run of the graph the judge step executes at most once and
\* only after both answer nodes have returned; nothing runs after it: once
\* the judge step is over the answers and the verdict stay as they are and
\* the next step of the run is its end (the clock of the deadline may pass
\* before it, which is no step of the run).
C27_JudgeOnceAfterBoth ==
    [][/\ JudgeEntered' => (node_pc'["llm_1"] = "done" /\ node_pc'["llm_2"] = "done")
       /\ (JudgeEntered /\ main_pc' # "build") =>
              /\ node_pc'["judge"] # "idle"
              /\ calls'.judge_invoked <= calls'.judge_created
              /\ calls'.judge_created <= 1
              /\ state'.response_a = state.response_a
              /\ state'.response_b = state.response_b
       /\ (main_pc = "graph" /\ node_pc["judge"] = "done") =>
              /\ \/ main_pc' \in {"done", "raised"}
                 \/ /\ deadline = "armed" /\ deadline' = "due"
                    /\ UNCHANGED <<main_pc, request, result>>
              /\ state' = state /\ node_pc' = node_pc /\ calls' = calls]_vars

\* A run that ended after its judge step, the judge having been invoked once
\* on two generated answers.
C27_Witness ==
    /\ main_pc = "done" /\ deadline = "exited"
    /\ node_pc["judge"] = "done"
    /\ calls.judge_invoked = 1 /\ calls.llm_invoked = 2

\* The answer node of side n returned an answer it produced without error:
\* the supplied pre-generated text, or the completion of its model.
ProducedWithoutError(n) ==
    /\ node_pc[n] = "done"
    /\ IF n = "llm_1" THEN ~IsSentinel(state.response_a)
       ELSE ~IsSentinel(state.response_b)

\* C28: an answer produced without error is never classified as failed by
\* the walkover evaluation: when both sides produced their answers without
\* error, whatever the texts, the judge node declares no walkover and goes
\* on to the judge.
C28_ValidAnswersReachJudge ==
    (/\ main_pc = "graph"
     /\ ProducedWithoutError("llm_1") /\ ProducedWithoutError("llm_2"))
        => /\ ~ResponseFailed(state.response_a)
           /\ ~ResponseFailed(state.response_b)
           /\ Walkover(state, request) = PyNone

\* C14: an answer node always returns an answer; for an unsupported model
\* the answer is the MODELO_ERROR sentinel, and the MODELO_ERROR sentinel is
\* returned for an unsupported model only: every other failure gives the
\* LLM_A_ERROR / LLM_B_ERROR sentinel of the node's side.
C14_ModelErrorOnlyForUnsupported ==
    \A n \in {"llm_1", "llm_2"} :
        main_pc = "graph" /\ node_pc[n] = "done" =>
            /\ AnswerOf(n).t = "str"
            /\ Unsupported(n) => IsModelError(AnswerOf(n))
            /\ IsModelError(AnswerOf(n)) => Unsupported(n)

Other(n) == IF n = "llm_1" THEN "llm_2" ELSE "llm_1"

\* Answer node n takes its first step while the other answer node, which
\* will have to create a client, has not started.
StartsBeforeOther(n) ==
    /\ main_pc = "graph"
    /\ node_pc[n] = "idle" /\ node_pc'[n] # "idle"
    /\ node_pc[Other(n)] = "idle"
    /\ ~UsePreGenerated(PreOf(Other(n)))

\* C25: answer production for side A and for side B share no mutable
\* state: the step of one answer node never changes what the other node
\* gets from the factory, so each side's outcome is the one it would have
\* if it ran alone, whichever side starts first, including when one side
\* requests a model the factory does not know.
C25_SidesIndependent ==
    [][\A n \in {"llm_1", "llm_2"} :
          StartsBeforeOther(n) =>
              \A env \in CreatorOutcomes :
                  CreateLLM(<<cached_models', config_loaded'>>, ModelOf(Other(n)), env)
                      = CreateLLM(<<cached_models, config_loaded>>, ModelOf(Other(n)), env)]_vars

\* C15: main never raises to its caller: a failure to build the graph, an
\* exception of the graph run, an invalid response of the graph and the
\* expiry of the deadline each end in a returned record that echoes the
\* input and carries a verdict and an execution time.
C15_MainNeverRaises ==
    /\ main_pc # "raised"
    /\ main_pc = "done" =>
          /\ result.input = request.input
          /\ result.better_llm.t = "str"
          /\ "execution_time" \in DOMAIN result

(***************************************************************************)
(* Properties of batch judging                                             *)
(***************************************************************************)
\* batch_judge_processing ended on its own: the judge client could not be
\* built, or chain.abatch returned or raised.
BatchProcessed == batch_pc = "done" /\ batch_raw # PyNone

\* The record echoes the comparison.
Echoes(record, comparison) ==
    /\ record.t = "BatchComparisonResult"
    /\ record.v.input = comparison.input
    /\ record.v.response_a = comparison.response_a
    /\ record.v.response_b = comparison.response_b

\* C5: batch_judge_processing returns one record per input comparison, the
\* i-th record echoing the i-th input, whether the judge calls succeed, one
\* output fails to parse or the whole batch call raises; no exception
\* leaves it.
C5_OneRecordPerInput ==
    BatchProcessed =>
        /\ batch_results.t = "list"
        /\ Len(batch_results.v) = Len(batch_in)
        /\ \A i \in 1..Len(batch_in) : Echoes(batch_results.v[i], batch_in[i])

\* The deadline of the whole batch expired while the judge calls were awaited.
BatchTimedOut == batch_pc = "done" /\ batch_raw = PyNone

\* C20: when the deadline of the whole batch expires the endpoint answers
\* 200 with a batch response holding one timed-out record per input
\* comparison, successful = 0, errors = total and best side 'N/A'.
C20_TimeoutIsA200 ==
    BatchTimedOut =>
        /\ batch_out.status_code = 200
        /\ Len(batch_out.body.results) = Len(batch_in)
        /\ \A i \in 1..Len(batch_in) :
               /\ Echoes(batch_out.body.results[i], batch_in[i])
               /\ StartsWith(batch_out.body.results[i].v.better_response, "TIMEOUT")
        /\ batch_out.body.successful = 0
        /\ batch_out.body.errors = Len(batch_in)
        /\ batch_out.body.total_comparisons = Len(batch_in)
        /\ batch_out.body.best_model = <<"N/A">>

\* The statistics were computed.
StatsComputed == stats_out # PyNone

\* The number of results whose verdict is in the set.
Verdicts(S) ==
    Cardinality({i \in 1..Len(stats_in) : stats_in[i].v.better_response \in S})

\* C6: in a batch response successful + errors = total_comparisons and
\* model_a_wins + model_b_wins + ties = successful, whatever the verdicts of
\* the items are.
C6_CountsAddUp ==
    StatsComputed =>
        /\ stats_out.successful + stats_out.errors = stats_out.total_comparisons
        /\ stats_out.model_a_wins + stats_out.model_b_wins + stats_out.ties
              = stats_out.successful
        /\ stats_out.total_comparisons = Len(stats_in)

\* A batch with a win, an error marker and a string that is no verdict was
\* counted as one success and two errors.
C6_Witness ==
    /\ StatsComputed
    /\ Len(stats_in) = 3
    /\ Verdicts({<<"A">>}) = 1
    /\ Verdicts({<<"a">>}) = 1
    /\ Verdicts({<<"ERRO", "- Falha crítica no batch">>}) = 1
    /\ stats_out.successful = 1 /\ stats_out.errors = 2

\* C7: the best side is A when A has more wins than B, B when B has more
\* wins, Empate when the wins are equal and not zero, and N/A when neither
\* side has a win; three errors give successful 0, errors 3 and N/A, and
\* the verdicts A, A, B give successful 3, errors 0 and A.
C7_BestSide ==
    StatsComputed =>
        LET a == Verdicts({<<"A">>})
            b == Verdicts({<<"B">>})
            verdicts == [i \in 1..Len(stats_in) |-> stats_in[i].v.better_response]
        IN  /\ stats_out.model_a_wins = a /\ stats_out.model_b_wins = b
            /\ a > b => stats_out.best_model = <<"A">>
            /\ b > a => stats_out.best_model = <<"B">>
            /\ a = b /\ a > 0 => stats_out.best_model = <<"Empate">>
            /\ a = 0 /\ b = 0 => stats_out.best_model = <<"N/A">>
            /\ Len(stats_in) = 3
                 /\ (\A i \in 1..3 : StartsWith(verdicts[i], "ERRO"))
                 => /\ stats_out.successful = 0 /\ stats_out.errors = 3
                    /\ stats_out.best_model = <<"N/A">>
            /\ verdicts = <<(<<"A">>), (<<"A">>), (<<"B">>)>>
                 => /\ stats_out.successful = 3 /\ stats_out.errors = 0
                    /\ stats_out.best_model = <<"A">>

\* One win each and a tie: the best side is Empate.
C7_Witness ==
    /\ StatsComputed
    /\ Len(stats_in) = 3
    /\ Verdicts({<<"A">>}) = 1 /\ Verdicts({<<"B">>}) = 1
    /\ Verdicts({<<"Empate">>}) = 1
    /\ stats_out.best_model = <<"Empate">>

(***************************************************************************)
(* Properties of parse_judge_response (workflow/workflow_backup.py)        *)
(***************************************************************************)
\* The parser was handed a structured reply: a non-empty dict with the
\* 'Preference' field.
StructuredReply ==
    /\ parse_in.t = "dict"
    /\ "Preference" \in DOMAIN parse_in.v
    /\ parse_out # PyNone

\* The value a dict holds under a field is there and is not empty.
HasText(d, k) == k \in DOMAIN d /\ d[k].t = "str" /\ Len(d[k].v) > 0

\* C8: for a structured reply, a Preference equal to 1 gives verdict A, a
\* Preference equal to 2 gives verdict B, and any other value gives Empate;
\* the reasoning is the non-empty text under 'Reasoning', else the value
\* under 'reasoning', and None when neither field carries one.
C8_StructuredPreference ==
    StructuredReply =>
        LET d == parse_in.v
            p == d["Preference"]
            one == p = PyInt(1) \/ p = PyBool(TRUE)
            two == p = PyInt(2)
        IN  /\ one => parse_out.better_response = <<"A">>
            /\ two => parse_out.better_response = <<"B">>
            /\ ~one /\ ~two => parse_out.better_response = <<"Empate">>
            /\ HasText(d, "Reasoning") => parse_out.judge_reasoning = d["Reasoning"]
            /\ ~HasText(d, "Reasoning") /\ HasText(d, "reasoning")
                  => parse_out.judge_reasoning = d["reasoning"]
            /\ ~HasText(d, "Reasoning") /\ ~HasText(d, "reasoning")
                  => ~Truthy(parse_out.judge_reasoning)
            /\ "Reasoning" \notin DOMAIN d /\ "reasoning" \notin DOMAIN d
                  => parse_out.judge_reasoning = PyNone

\* A Preference of 3 was parsed as Empate and the lower-case 'reasoning'
\* field supplied the reasoning.
C8_Witness ==
    /\ StructuredReply
    /\ parse_in.v["Preference"] = PyInt(3)
    /\ "Reasoning" \notin DOMAIN parse_in.v
    /\ HasText(parse_in.v, "reasoning")
    /\ parse_out.better_response = <<"Empate">>
    /\ parse_out.judge_reasoning = parse_in.v["reasoning"]

\* The parser was handed a non-empty free-text reply.
TextReply == parse_in.t = "str" /\ Len(parse_in.v) > 0 /\ parse_out # PyNone

\* 'winner:' occurs and the side's label occurs at or after it.
NamedAfterWinner(text, label) ==
    \E i \in 1..Len(text) : \E j \in i..Len(text) :
        /\ "winner:" \in Inside(LowerWord(text[i]))
        /\ label \in Inside(LowerWord(text[j]))

\* The text holds the phrase '<side> is better'.
SaysIsBetter(text, label) ==
    \E i \in 1..(Len(text) - 1) :
        LowerWord(text[i]) = label /\ LowerWord(text[i + 1]) = "is better"

\* C9: a free-text reply is classified by ordered tiers, the first that
\* matches deciding; '<side> is better' phrasing is the second tier, ahead
\* of the tie keywords and of the dominance count: a text without a winner
\* phrase that says one side, and only that side, is better gets that side
\* as its verdict.
C9_FourTiers ==
    TextReply =>
        LET text == parse_in.v
            winnerA == NamedAfterWinner(text, "assistant a")
            winnerB == NamedAfterWinner(text, "assistant b")
            betterA == SaysIsBetter(text, "assistant a")
            betterB == SaysIsBetter(text, "assistant b")
        IN  /\ ~winnerA /\ ~winnerB /\ betterA /\ ~betterB
                => parse_out.better_response = <<"A">>
            /\ ~winnerA /\ ~winnerB /\ betterB /\ ~betterA
                => parse_out.better_response = <<"B">>

\* The text holds the winner phrase for the side: 'winner:' directly
\* followed by the side's label.
WinnerPhrase(text, label) ==
    \E i \in 1..(Len(text) - 1) :
        Lower(text)[i] = "winner:" /\ Lower(text)[i + 1] = label

\* C30: for a free-text reply with a 'winner:' marker the verdict is the
\* side named in the winner phrase: 'winner:' followed by 'assistant b'
\* gives B and 'winner:' followed by 'assistant a' gives A, whatever side
\* labels occur elsewhere in the text.
C30_WinnerPhraseDecides ==
    (TextReply /\ parse_out # PyNone) =>
        LET text == parse_in.v
        IN  /\ (WinnerPhrase(text, "assistant b") /\ ~WinnerPhrase(text, "assistant a"))
                => parse_out.better_response = <<"B">>
            /\ (WinnerPhrase(text, "assistant a") /\ ~WinnerPhrase(text, "assistant b"))
                => parse_out.better_response = <<"A">>

\* The reply is neither a dict with the 'Preference' field nor a non-empty
\* text.
Unrecognised(raw) ==
    \/ raw.t \notin {"dict", "str"}
    \/ raw.t = "dict" /\ "Preference" \notin DOMAIN raw.v
    \/ raw.t = "str" /\ Len(raw.v) = 0

\* C11: the parser never raises: every call returns a record with a verdict
\* and a reasoning, and for a reply that is neither a dict with 'Preference'
\* nor a non-empty text the verdict is an ERRO verdict and the reasoning a
\* diagnostic text.
C11_ParseNeverRaises ==
    parse_out # PyNone =>
        /\ DOMAIN parse_out = {"better_response", "judge_reasoning"}
        /\ Unrecognised(parse_in) =>
              /\ Len(parse_out.better_response) > 0
              /\ parse_out.better_response[1] = "ERRO"
              /\ parse_out.judge_reasoning.t = "str"
              /\ Len(parse_out.judge_reasoning.v) > 0

\* The parser was handed an exception object and returned the ERRO verdict.
C11_Witness ==
    /\ parse_in.t = "exc"
    /\ parse_out # PyNone
    /\ parse_out.better_response = <<"ERRO", "- Resposta malformada do judge">>

(***************************************************************************)
(* Properties of the judge-only comparison (workflow/workflow_backup.py)   *)
(***************************************************************************)
\* The awaited judge chain raised the malformed-JSON error whose message
\* embeds the judge's text after the marker, and main returned.
JudgeRaisedInvalidJson ==
    /\ cmp_pc = "done"
    /\ cmp_judge # PyNone
    /\ cmp_judge.reply.t = "exc"
    /\ IsValueError(cmp_judge.reply)
    /\ Len(cmp_judge.reply.v) > 1
    /\ cmp_judge.reply.v[1] = "Invalid json output:"

\* C10: when the judge chain raises the malformed-JSON error with the
\* marker 'Invalid json output:', the verdict of the comparison is A, B or
\* Empate, derived from the embedded text, and not an error verdict.
C10_VerdictFromEmbeddedText ==
    JudgeRaisedInvalidJson =>
        cmp_out.better_response \in {<<"A">>, <<"B">>, <<"Empate">>}

\* The verdict is A, B or Empate, or carries the ERRO or the TIMEOUT
\* prefix.
DefinedKind(better_response) ==
    \/ better_response \in {<<"A">>, <<"B">>, <<"Empate">>}
    \/ /\ Len(better_response) > 1
       /\ better_response[1] \in {"ERRO", "TIMEOUT"}

\* C13: on every path of the comparison (judge verdict, judge failure,
\* validation failure, timeout, unexpected exception) the verdict of the
\* returned record is A, B, Empate or a value with the ERRO or TIMEOUT
\* prefix, never the reply of the judge passed through.
C13_VerdictOfDefinedKind ==
    cmp_pc = "done" => DefinedKind(cmp_out.better_response)

\* The judge answered in free text and the verdict is A, not the text.
C13_Witness ==
    /\ cmp_pc = "done"
    /\ cmp_judge # PyNone
    /\ cmp_judge.reply = PyStr(<<"Assistant A", "is better">>)
    /\ cmp_out.better_response = <<"A">>

(***************************************************************************)
(* Properties of the endpoints behind their request schemas                *)
(***************************************************************************)
\* The batch endpoint received a list of comparisons each of which the
\* schema of a single comparison admits.
ReceivedAdmissibleList ==
    /\ batch_pc # "idle"
    /\ "comparisons" \in DOMAIN http_in
    /\ \A i \in 1..Len(http_in.comparisons) :
           ~IsExc(CompareRequest(http_in.comparisons[i]))

\* The request was answered 422 and the factory was never asked for the
\* judge client.
RejectedAtValidation ==
    /\ batch_pc = "rejected"
    /\ batch_out.status_code = 422
    /\ batch_raw = PyNone /\ batch_results = PyNone
    /\ cached_models = <<>> /\ ~config_loaded

\* C21: a batch request is accepted exactly when it holds between 2 and 5
\* comparisons: sizes 0, 1 and 6 or more are rejected at validation before
\* any judge call, sizes 2 through 5 enter the handler with all their
\* comparisons.
C21_BatchSizeBoundary ==
    ReceivedAdmissibleList =>
        LET n == Len(http_in.comparisons)
        IN  /\ n \in 2..5 => batch_pc # "rejected" /\ Len(batch_in) = n
            /\ n \notin 2..5 => RejectedAtValidation

\* A batch of five comparisons was admitted and the judge answered all five.
C21_Witness ==
    /\ ReceivedAdmissibleList
    /\ Len(http_in.comparisons) = 5
    /\ batch_pc = "done" /\ batch_raw.t = "list" /\ Len(batch_raw.v) = 5

\* The judge model the request asks for: its judge_model, or the default
\* model of the registry when it names none.
RequestedJudgeModel ==
    IF "judge_model" \in DOMAIN http_in /\ http_in.judge_model.t = "str"
    THEN http_in.judge_model.v[1]
    ELSE GetDefaultModel(registry)

\* The schema rejected the body.
BodyRejected == IsExc(CompareRequest(http_in))

\* The single-comparison endpoint answered a request whose body the schema
\* admits.
AdmittedAndAnswered == ~BodyRejected /\ http_out # PyNone

\* C22: the judge model used for a comparison is the request's judge_model
\* when one is given and the registry's default model otherwise, and the
\* result's judge_model_used field reports the identifier of the model that
\* issued the verdict: the answer to an admitted request is a result whose
\* judge_model_used is the model the request asks for.
C22_JudgeModelReported ==
    AdmittedAndAnswered =>
        /\ http_out.status_code = 200
        /\ http_out.body.v.judge_model_used = PyStr(<<RequestedJudgeModel>>)

\* A result record that carries every field the response model requires.
CompleteRecord ==
    [input |-> PyStr(<<"question">>), response_a |-> PyStr(<<"story">>),
     response_b |-> PyStr(<<"tale">>),
     model_a_name |-> PyStr(<<"model-x">>), model_b_name |-> PyNone,
     better_response |-> <<"A">>, judge_reasoning |-> PyNone,
     judge_model_used |-> PyStr(<<"claude-4-sonnet">>)]

\* What the call of workflow_main can hand the handler: a complete result
\* record, the records the two main functions of the repository return (the
\* one of workflow.py has no better_response, the one of workflow_backup.py
\* no judge_model_used), None, and the exceptions of a deadline, of a
\* validation and of other failures, the TypeError of the call as written
\* among them.
MainOutcomes ==
    {CompleteRecord,
     ErrorRecord([llm_a |-> "claude-4-sonnet", llm_b |-> "llama-4-maverick",
                  input |-> <<"question">>, pre_generated_response_a |-> PyNone,
                  pre_generated_response_b |-> PyNone, timeout_seconds |-> PyInt(30)],
                 <<"WORKFLOW_TIMEOUT_ERROR">>, <<"TIMEOUT_ERROR", "- Excedeu", "30s">>),
     FinalResult([input_question |-> PyStr(<<"question">>), response_a |-> PyStr(<<"story">>),
                  response_b |-> PyStr(<<"tale">>), model_a_name |-> PyNone,
                  model_b_name |-> PyNone, timeout_seconds |-> 30],
                 [better_response |-> <<"A">>, judge_reasoning |-> PyNone]),
     PyNone,
     PyExc("TimeoutError", <<>>),
     PyExc("ValueError", <<"response_a não pode ser vazia">>),
     PyExc("ValidationError", <<"Field required">>),
     PyExc("RuntimeError", <<"GRAPH_BUILD_ERROR">>),
     PyExc("KeyError", <<"'better_llm'">>),
     BindMain(MainKeywords)}

\* The comparison completed: the call returned a record the response model
\* accepts.
Completed(outcome) ==
    /\ ~IsExc(outcome) /\ outcome # PyNone
    /\ "better_response" \in DOMAIN outcome
    /\ ~IsExc(ComparisonResponse(outcome))

====
